---------------------------- MODULE Spec2Model ----------------------------
(***************************************************************************)
(* A model of the Factorio quality optimizer (solver/linear_solver.py and  *)
(* the web handler backend/flask_app.py).                                  *)
(*                                                                         *)
(* Conventions of the model                                                *)
(*  - Python floats are fixed-point integers: a fraction x is the integer  *)
(*    x * Scale (Scale = 1000), a probability factor is an integer in      *)
(*    units of 1/ProbOne.  Divisions round towards zero.                   *)
(*  - A Python string that is built from or split into parts (item keys,   *)
(*    recipe keys, machine keys, ids) is a sequence of tokens; the         *)
(*    delimiters "__", "--" and "-" are tokens of their own, so that       *)
(*    split('__'), split('--'), split('-') and endswith() are computed,    *)
(*    not assumed.                                                         *)
(*  - A Python dict is a sequence of entries [k |-> key, v |-> value] in   *)
(*    insertion order.                                                     *)
(***************************************************************************)
EXTENDS Integers, Sequences, FiniteSets, TLC

(***************************************************************************)
(* Generic helpers                                                         *)
(***************************************************************************)
Scale == 10 ^ 3

Range(s) == { s[i] : i \in DOMAIN s }

Min2(a, b) == IF a <= b THEN a ELSE b

Max2(a, b) == IF a >= b THEN a ELSE b

SetMax(S) == CHOOSE x \in S : \A y \in S : y <= x

RECURSIVE SeqSum(_)
SeqSum(s) == IF s = << >> THEN 0 ELSE Head(s) + SeqSum(Tail(s))

RECURSIVE Flatten(_)
Flatten(ss) == IF ss = << >> THEN << >> ELSE Head(ss) \o Flatten(Tail(ss))

RECURSIVE SelectSeqIdx(_, _)
SelectSeqIdx(s, keep) ==
    IF s = << >> THEN << >>
    ELSE LET n == Len(s)
             front == SelectSeqIdx(SubSeq(s, 1, n - 1), keep)
         IN  IF n \in keep THEN Append(front, s[n]) ELSE front

\* dict[key] lookups, "key in dict", dict[key] = value, del dict[key]
DictKeys(d) == { d[i].k : i \in DOMAIN d }

DictHas(d, key) == key \in DictKeys(d)

DictGet(d, key) == d[CHOOSE i \in DOMAIN d : d[i].k = key].v

DictSet(d, key, val) ==
    IF DictHas(d, key)
    THEN [ i \in DOMAIN d |-> IF d[i].k = key THEN [k |-> key, v |-> val] ELSE d[i] ]
    ELSE Append(d, [k |-> key, v |-> val])

DictDel(d, key) == SelectSeqIdx(d, { i \in DOMAIN d : d[i].k # key })

DictValues(d) == [ i \in DOMAIN d |-> d[i].v ]

\* { x['key']: x for x in list }
RECURSIVE DictByKey(_)
DictByKey(list) ==
    IF list = << >> THEN << >>
    ELSE LET n == Len(list)
         IN  DictSet(DictByKey(SubSeq(list, 1, n - 1)), list[n].key, list[n])

(***************************************************************************)
(* Module-level tables of linear_solver.py (fractions in units of 1/Scale) *)
(***************************************************************************)
DEFAULT_RESOURCE_CATEGORY == "basic-solid"

JUMP_QUALITY_PROBABILITY == 100

QUALITY_NAMES == << "normal", "uncommon", "rare", "epic", "legendary" >>

\* QUALITY_LEVELS[name]
QualityLevel(name) == (CHOOSE i \in DOMAIN QUALITY_NAMES : QUALITY_NAMES[i] = name) - 1

QualityName(level) == QUALITY_NAMES[level + 1]

QUALITY_PROBABILITIES ==
    << << 10, 13, 16, 19, 25 >>, << 20, 26, 32, 38, 50 >>, << 25, 32, 40, 47, 62 >> >>

SPEED_PENALTIES_PER_QUALITY_MODULE == << 50, 50, 50 >>

PROD_BONUSES ==
    << << 40, 50, 60, 70, 100 >>, << 60, 70, 90, 110, 150 >>, << 100, 130, 160, 190, 250 >> >>

SPEED_PENALTIES_PER_PROD_MODULE == << 50, 100, 150 >>

SPEED_BONUSES ==
    << << 200, 260, 320, 380, 500 >>, << 300, 390, 480, 570, 750 >>,
       << 500, 650, 800, 950, 1250 >> >>

QUALITY_PENALTIES_PER_SPEED_MODULE == << 10, 15, 25 >>

QUALITY_BONUSES == << 0, 300, 600, 900, 1500 >>

\* list(range(17))
BEACON_RANGE == 17

POSSIBLE_NUM_BEACONED_SPEED_MODULES == [ i \in 1..BEACON_RANGE |-> i - 1 ]

BEACON_EFFICIENCIES == << 1500, 1700, 1900, 2100, 2500 >>

MINIMUM_MODULE_SPEED_FACTOR == 200

MAXIMUM_PRODUCTIVITY_BONUS == 3000

(***************************************************************************)
(* Mechanics                                                               *)
(***************************************************************************)
\* num_beacons ** (-0.5) in units of 1/Scale, for num_beacons = 1..8
InvSqrtMilli == << 1000, 707, 577, 500, 447, 408, 378, 354 >>

calculate_num_effective_speed_modules(num_beaconed_speed_modules, beacon_efficiency) ==
    IF num_beaconed_speed_modules = 0 THEN 0
    ELSE LET num_beacons == (num_beaconed_speed_modules + 1) \div 2
         IN  (num_beaconed_speed_modules * beacon_efficiency * InvSqrtMilli[num_beacons]) \div Scale

\* A probability factor is an integer in units of 1/ProbOne; the unit is fine
\* enough for quality_percent / Scale times four jumps to be exact.
JumpInv == Scale \div JUMP_QUALITY_PROBABILITY

MaxJumps == Len(QUALITY_NAMES) - 1

ProbOne == Scale * JumpInv ^ MaxJumps

\* quality_percent * JUMP_QUALITY_PROBABILITY ** jumps
PercentTimesJumps(quality_percent, jumps) == quality_percent * JumpInv ^ (MaxJumps - jumps)

\* (1 - JUMP_QUALITY_PROBABILITY) * JUMP_QUALITY_PROBABILITY ** jumps * quality_percent,
\* computed as (JumpInv - 1) * JUMP ** (jumps + 1) * quality_percent to stay in integers
PercentTimesJumpsThenStop(quality_percent, jumps) ==
    (JumpInv - 1) * PercentTimesJumps(quality_percent, jumps + 1)

\* calculate_quality_probability_factor without its branch for
\* ending_quality = max_quality_unlocked: the top tier keeps the
\* (1 - JUMP_QUALITY_PROBABILITY) factor
calculate_quality_probability_factor_noTopTier(starting_quality, ending_quality, max_quality_unlocked, quality_percent) ==
    IF starting_quality > max_quality_unlocked THEN
        [raised |-> "ValueError", value |-> 0]
    ELSE IF ending_quality > max_quality_unlocked THEN
        [raised |-> "ValueError", value |-> 0]
    ELSE IF ending_quality < starting_quality THEN
        [raised |-> "ValueError", value |-> 0]
    ELSE IF ending_quality = starting_quality /\ starting_quality = max_quality_unlocked THEN
        [raised |-> "none", value |-> ProbOne]
    ELSE IF ending_quality = starting_quality THEN
        [raised |-> "none", value |-> (Scale - quality_percent) * JumpInv ^ MaxJumps]
    ELSE
        [raised |-> "none",
         value |-> PercentTimesJumpsThenStop(quality_percent, ending_quality - starting_quality - 1)]

\* calculate_quality_probability_factor without its third check: an ending
\* quality below the starting quality goes on to the branches
calculate_quality_probability_factor_noOrderCheck(starting_quality, ending_quality, max_quality_unlocked, quality_percent) ==
    IF starting_quality > max_quality_unlocked THEN
        [raised |-> "ValueError", value |-> 0]
    ELSE IF ending_quality > max_quality_unlocked THEN
        [raised |-> "ValueError", value |-> 0]
    ELSE IF ending_quality = starting_quality /\ starting_quality = max_quality_unlocked THEN
        [raised |-> "none", value |-> ProbOne]
    ELSE IF ending_quality = starting_quality THEN
        [raised |-> "none", value |-> (Scale - quality_percent) * JumpInv ^ MaxJumps]
    ELSE IF ending_quality > starting_quality /\ ending_quality < max_quality_unlocked THEN
        [raised |-> "none",
         value |-> PercentTimesJumpsThenStop(quality_percent, ending_quality - starting_quality - 1)]
    ELSE IF ending_quality > starting_quality /\ ending_quality = max_quality_unlocked THEN
        [raised |-> "none",
         value |-> PercentTimesJumps(quality_percent, ending_quality - starting_quality - 1)]
    ELSE
        [raised |-> "RuntimeError", value |-> 0]

calculate_quality_probability_factor(starting_quality, ending_quality, max_quality_unlocked, quality_percent) ==
    IF starting_quality > max_quality_unlocked THEN
        [raised |-> "ValueError", value |-> 0]
    ELSE IF ending_quality > max_quality_unlocked THEN
        [raised |-> "ValueError", value |-> 0]
    ELSE IF ending_quality < starting_quality THEN
        [raised |-> "ValueError", value |-> 0]
    ELSE IF ending_quality = starting_quality /\ starting_quality = max_quality_unlocked THEN
        [raised |-> "none", value |-> ProbOne]
    ELSE IF ending_quality = starting_quality THEN
        [raised |-> "none", value |-> (Scale - quality_percent) * JumpInv ^ MaxJumps]
    ELSE IF ending_quality > starting_quality /\ ending_quality < max_quality_unlocked THEN
        [raised |-> "none",
         value |-> PercentTimesJumpsThenStop(quality_percent, ending_quality - starting_quality - 1)]
    ELSE IF ending_quality > starting_quality /\ ending_quality = max_quality_unlocked THEN
        [raised |-> "none",
         value |-> PercentTimesJumps(quality_percent, ending_quality - starting_quality - 1)]
    ELSE
        [raised |-> "RuntimeError", value |-> 0]

\* field access with a default: d[name] if name in d.keys() else default
FieldOr(rec, name, default) == IF name \in DOMAIN rec THEN rec[name] ELSE default

calculate_expected_amount(result_data, prod_bonus) ==
    LET base_amount == IF "amount" \in DOMAIN result_data
                       THEN result_data.amount
                       ELSE (result_data.amount_min + result_data.amount_max) \div 2
        probabiity_factor == FieldOr(result_data, "probability", Scale)
        ignored_by_productivity == FieldOr(result_data, "ignored_by_productivity", 0)
        extra_count_fraction == FieldOr(result_data, "extra_count_fraction", 0)
        base_amount_after_prod ==
            ignored_by_productivity
              + ((base_amount - ignored_by_productivity) * (Scale + prod_bonus)) \div Scale
        amount_after_probabilities ==
            (((base_amount_after_prod * probabiity_factor) \div Scale)
               * (Scale + extra_count_fraction)) \div Scale
    IN  amount_after_probabilities

\* rate * factor / ProbOne without leaving 32-bit integers: the factor is split
\* into three digits of base Scale
TimesProbability(rate, factor) ==
    LET hi  == factor \div (Scale * Scale)
        mid == (factor \div Scale) % Scale
        lo  == factor % Scale
    IN  (rate * hi) \div (ProbOne \div (Scale * Scale))
          + (rate * mid) \div (ProbOne \div Scale)
          + (rate * lo) \div ProbOne

(***************************************************************************)
(* Identifiers (token sequences)                                           *)
(***************************************************************************)
\* str(n) for a non-negative integer: one token per decimal digit
Digits == << "0", "1", "2", "3", "4", "5", "6", "7", "8", "9" >>

RECURSIVE IntToken(_)
IntToken(n) == IF n < 10 THEN << Digits[n + 1] >> ELSE IntToken(n \div 10) \o << Digits[(n % 10) + 1] >>

\* s.split(sep) for a token sequence s and a delimiter token sep
RECURSIVE Split(_, _)
Split(s, sep) ==
    IF \A i \in DOMAIN s : s[i] # sep THEN << s >>
    ELSE LET i == CHOOSE j \in DOMAIN s : s[j] = sep /\ \A h \in 1..(j - 1) : s[h] # sep
         IN  << SubSeq(s, 1, i - 1) >> \o Split(SubSeq(s, i + 1, Len(s)), sep)

EndsWith(s, suffix) ==
    /\ Len(s) >= Len(suffix)
    /\ SubSeq(s, Len(s) - Len(suffix) + 1, Len(s)) = suffix

get_recipe_id(recipe_key, quality, crafting_machine_key, num_qual_modules, num_prod_modules, num_beaconed_speed_modules) ==
    << QualityName(quality), "__" >> \o recipe_key \o << "__" >> \o crafting_machine_key
      \o << "__" >> \o IntToken(num_qual_modules) \o << "-", "qual" >>
      \o << "__" >> \o IntToken(num_prod_modules) \o << "-", "prod" >>
      \o << "__" >> \o IntToken(num_beaconed_speed_modules) \o << "-", "beaconed", "-", "speed" >>

\* int() that reads the last digit only
TokenInt_lastDigit(tokens) ==
    IF tokens = << >> THEN 0 ELSE CHOOSE d \in 0..9 : Digits[d + 1] = tokens[Len(tokens)]

\* int(s) for a sequence of digit tokens
RECURSIVE TokenInt(_)
TokenInt(tokens) ==
    IF tokens = << >> THEN 0
    ELSE 10 * TokenInt(SubSeq(tokens, 1, Len(tokens) - 1))
         + (CHOOSE d \in 0..9 : Digits[d + 1] = tokens[Len(tokens)])

parse_recipe_id(recipe_id) ==
    LET objs == Split(recipe_id, "__")
    IN  [recipe_quality |-> objs[1][1],
         recipe_key |-> objs[2],
         machine |-> objs[3],
         num_qual_modules |-> TokenInt(Split(objs[4], "-")[1]),
         num_prod_modules |-> TokenInt(Split(objs[5], "-")[1]),
         num_beaconed_speed_modules |-> TokenInt(Split(objs[6], "-")[1])]

get_resource_item_key(item_key) == item_key \o << "--", "resource" >>

\* item_quality, item_key = item_id.split('__')
parse_item_id(item_id) ==
    LET objs == Split(item_id, "__")
    IN  [item_key |-> objs[2], item_quality |-> objs[1][1]]

\* _, item_quality, item_key = input_id.split('__')
parse_input_id(input_id) ==
    LET objs == Split(input_id, "__")
    IN  [item_key |-> objs[3], item_quality |-> objs[2][1]]

\* _, item_quality, item_key = byproduct_id.split('__')
parse_byproduct_id(byproduct_id) ==
    LET objs == Split(byproduct_id, "__")
    IN  [item_key |-> objs[3], item_quality |-> objs[2][1]]

\* raw_key.split('--')[0]
KeyStem(raw_key) == Split(raw_key, "--")[1]

get_resource_recipe_key(item_key) == item_key \o << "--", "mining" >>

get_item_id(item_key, quality) == << QualityName(quality), "__" >> \o item_key

get_input_id(item_id) == << "input", "__" >> \o item_id

get_byproduct_id(item_id) == << "byproduct", "__" >> \o item_id

get_output_id(item_id) == << "output", "__" >> \o item_id

(***************************************************************************)
(* Game data and configurations the model draws from                       *)
(***************************************************************************)
\* largest max_quality_unlocked level a configuration of the model asks for
MaxQualityCfg == 2

\* the modelled engine returns values in 0..MaxVal and only solves problems of
\* at most EngineMaxVars variables (a larger problem is reported as not solved)
MaxVal == 2

EngineMaxVars == 12

ItemOre == [key |-> << "ore" >>, type |-> "item"]

ItemPlate == [key |-> << "plate" >>, type |-> "item"]

ItemWater == [key |-> << "water" >>, type |-> "fluid"]

ItemSlag == [key |-> << "slag" >>, type |-> "item"]

CatalogItems == << ItemOre, ItemPlate, ItemWater, ItemSlag >>

Ingredient(name, amount) == [name |-> << name >>, amount |-> amount]

RecipeSmelt ==
    [key |-> << "smelt" >>, ingredients |-> << Ingredient("ore", Scale) >>,
     results |-> << Ingredient("plate", Scale) >>, energy_required |-> Scale,
     category |-> "smelting", allow_productivity |-> TRUE]

\* fluid ingredient only; a co-product that appears half of the time
RecipeCast ==
    [key |-> << "cast" >>, ingredients |-> << Ingredient("water", 2 * Scale) >>,
     results |-> << Ingredient("plate", Scale),
                    [name |-> << "slag" >>, amount |-> 2 * Scale, probability |-> Scale \div 2] >>,
     energy_required |-> 2 * Scale, category |-> "chemistry", allow_productivity |-> FALSE]

\* no machine of the catalogs supports its category
RecipeRocket ==
    [key |-> << "rocket", "-", "part" >>, ingredients |-> << Ingredient("plate", Scale) >>,
     results |-> << Ingredient("slag", Scale) >>, energy_required |-> 3 * Scale,
     category |-> "rocket-building", allow_productivity |-> TRUE]

\* "nonsense recipes": ingredients that are no item of the catalog
RecipeJunk1 ==
    [key |-> << "junk1" >>, ingredients |-> << Ingredient("ghost", Scale) >>,
     results |-> << Ingredient("plate", Scale) >>, energy_required |-> Scale,
     category |-> "smelting", allow_productivity |-> FALSE]

RecipeJunkMixed ==
    [key |-> << "junkmixed" >>,
     ingredients |-> << Ingredient("ghost", Scale), Ingredient("ore", Scale) >>,
     results |-> << Ingredient("plate", Scale) >>, energy_required |-> Scale,
     category |-> "smelting", allow_productivity |-> FALSE]

RecipeJunk2 ==
    [key |-> << "junk2" >>,
     ingredients |-> << Ingredient("ghost", Scale), Ingredient("phantom", Scale) >>,
     results |-> << Ingredient("plate", Scale) >>, energy_required |-> Scale,
     category |-> "smelting", allow_productivity |-> FALSE]

\* the same item listed twice, as ingredient and as result
RecipeDouble ==
    [key |-> << "double" >>,
     ingredients |-> << Ingredient("ore", Scale), Ingredient("ore", Scale) >>,
     results |-> << Ingredient("plate", Scale), Ingredient("plate", Scale) >>,
     energy_required |-> Scale, category |-> "smelting", allow_productivity |-> FALSE]

\* a fluid in, the product and a co-product out, one of each per second
RecipeRefine ==
    [key |-> << "refine" >>, ingredients |-> << Ingredient("water", Scale) >>,
     results |-> << Ingredient("plate", Scale), Ingredient("slag", Scale) >>,
     energy_required |-> Scale, category |-> "chemistry", allow_productivity |-> FALSE]

\* known ingredients, a result that is no item of the catalog
RecipeGhostResult ==
    [key |-> << "conjure" >>, ingredients |-> << Ingredient("ore", Scale) >>,
     results |-> << Ingredient("ghost", Scale) >>, energy_required |-> Scale,
     category |-> "smelting", allow_productivity |-> FALSE]

\* a quality ingredient and a fluid in, a quality result and a fluid out
RecipeLeach ==
    [key |-> << "leach" >>,
     ingredients |-> << Ingredient("ore", Scale), Ingredient("water", 2 * Scale) >>,
     results |-> << Ingredient("plate", Scale), Ingredient("water", Scale) >>,
     energy_required |-> Scale, category |-> "chemistry", allow_productivity |-> TRUE]

\* a result with every optional field of calculate_expected_amount
RecipeSift ==
    [key |-> << "sift" >>, ingredients |-> << Ingredient("ore", Scale) >>,
     results |-> << [name |-> << "plate" >>, amount |-> 2 * Scale,
                     ignored_by_productivity |-> Scale, probability |-> Scale \div 2,
                     extra_count_fraction |-> Scale \div 4] >>,
     energy_required |-> Scale, category |-> "smelting", allow_productivity |-> TRUE]

RecipeCatalogs ==
    { << >>, << RecipeSmelt >>, << RecipeSmelt, RecipeCast >>, << RecipeRocket, RecipeSmelt >>,
      << RecipeJunk1, RecipeSmelt >>, << RecipeSmelt, RecipeJunkMixed >>,
      << RecipeSmelt, RecipeJunk2 >>, << RecipeJunk1, RecipeRocket, RecipeCast >> }

Machine(key, module_slots, crafting_speed, prod_bonus, crafting_categories) ==
    [key |-> key, module_slots |-> module_slots, crafting_speed |-> crafting_speed,
     prod_bonus |-> prod_bonus, crafting_categories |-> crafting_categories]

Furnace0 == Machine(<< "stone", "-", "furnace" >>, 0, Scale, 0, { "smelting" })

Furnace2 == Machine(<< "electric", "-", "furnace" >>, 2, 2 * Scale, 0, { "smelting", "chemistry" })

Furnace2Twin == Machine(<< "twin" >>, 2, 2 * Scale, 0, { "smelting" })

FurnaceWide == Machine(<< "wide" >>, 2, Scale, 0, { "smelting" })

FurnaceFast == Machine(<< "fast" >>, 0, 2 * Scale, Scale \div 2, { "smelting" })

Plant1 == Machine(<< "plant" >>, 1, Scale, 0, { "chemistry" })

Assembler6 == Machine(<< "assembler" >>, 6, 5 * Scale, 0, { "smelting" })

\* more module slots than any quality module needs to reach 100 percent
Tower17 == Machine(<< "tower" >>, 17, Scale, 0, { "smelting" })

MachineCatalogs ==
    { << >>, << Furnace0 >>, << Furnace2 >>, << Furnace0, Furnace2 >>, << Furnace2, Furnace0 >>,
      << FurnaceWide, FurnaceFast >>, << Furnace2, Furnace2Twin >>, << Plant1, Furnace0 >>,
      << Plant1 >> }

ResourceOre ==
    [key |-> << "ore" >>, mining_time |-> Scale, results |-> << Ingredient("ore", Scale) >>]

Drill ==
    [key |-> << "drill" >>, module_slots |-> 1, mining_speed |-> Scale,
     resource_categories |-> { DEFAULT_RESOURCE_CATEGORY }]

GameData(recipes_, machines_, resources_, drills_) ==
    [items |-> CatalogItems, recipes |-> recipes_, crafting_machines |-> machines_,
     resources |-> resources_, mining_drills |-> drills_]

BaseData == GameData(<< RecipeSmelt >>, << Furnace0 >>, << >>, << >>)

ChainData == GameData(<< RecipeSmelt >>, << Furnace0 >>, << ResourceOre >>, << Drill >>)

\* an allow-list or disallow-list of the configuration: None, or a list of keys
NoList == [given |-> FALSE, keys |-> { }]

ListOf(keys) == [given |-> TRUE, keys |-> keys]

Input(key, quality, cost, resource) ==
    [key |-> key, quality |-> quality, cost |-> cost, resource |-> resource]

Output(key, quality, amount) == [key |-> key, quality |-> quality, amount |-> amount]

BaseConfig ==
    [quality_module_tier |-> 2, quality_module_quality |-> "normal",
     prod_module_tier |-> 1, prod_module_quality |-> "normal",
     speed_module_tier |-> 1, speed_module_quality |-> "normal",
     check_speed_modules |-> FALSE, building_quality |-> "normal",
     productivity_research |-> << >>, allow_byproducts |-> FALSE,
     allowed_recipes |-> NoList, disallowed_recipes |-> NoList,
     allowed_crafting_machines |-> NoList, disallowed_crafting_machines |-> NoList,
     max_quality_unlocked |-> "normal", building_cost |-> 1, module_cost |-> 1,
     inputs |-> << Input(<< "ore" >>, "normal", 1, FALSE) >>,
     outputs |-> << Output(<< "plate" >>, "normal", 2 * Scale) >>]

RecipeFilters ==
    { << NoList, NoList >>, << ListOf({ << "smelt" >> }), NoList >>,
      << NoList, ListOf({ << "smelt" >> }) >>, << ListOf({ }), NoList >>,
      << ListOf({ << "smelt" >> }), ListOf({ << "cast" >> }) >> }

MachineFilters ==
    { << NoList, NoList >>, << ListOf({ Furnace2.key }), NoList >>,
      << NoList, ListOf({ Furnace2.key }) >>,
      << ListOf({ Furnace0.key }), ListOf({ Furnace2.key }) >> }

ResearchChoices ==
    { << >>, << [k |-> << "smelt" >>, v |-> Scale \div 2] >>,
      << [k |-> << "smelt" >>, v |-> 4 * Scale] >>,
      << [k |-> << "junk1" >>, v |-> Scale \div 2] >>,
      << [k |-> << "smelt" >>, v |-> Scale \div 2], [k |-> << "warp" >>, v |-> Scale] >>,
      << [k |-> << "ore", "--", "mining" >>, v |-> Scale \div 2] >> }

InputChoices ==
    { << >>, << Input(<< "ore" >>, "normal", 1, FALSE) >>,
      << Input(<< "ore" >>, "normal", 1, TRUE) >>,
      << Input(<< "ore" >>, "normal", 2, FALSE), Input(<< "ore" >>, "normal", 1, FALSE) >>,
      << Input(<< "ore" >>, "normal", 1, FALSE), Input(<< "water" >>, "normal", 0, FALSE) >>,
      << Input(<< "ore" >>, "uncommon", 1, FALSE) >> }

OutputChoices ==
    { << >>, << Output(<< "plate" >>, "normal", 2 * Scale) >>,
      << Output(<< "plate" >>, "normal", Scale), Output(<< "slag" >>, "normal", Scale) >>,
      << Output(<< "plate" >>, "uncommon", Scale) >> }

QualityChoices == { QualityName(level) : level \in 0..MaxQualityCfg }

ScenariosCatalog ==
    { [config |-> BaseConfig, data |-> GameData(r, m, rd[1], rd[2])] :
        r \in RecipeCatalogs, m \in MachineCatalogs,
        rd \in { << << >>, << >> >>, << << ResourceOre >>, << Drill >> >> } }

ScenariosFilter ==
    { [config |-> [BaseConfig EXCEPT !.allowed_recipes = rf[1], !.disallowed_recipes = rf[2],
                                     !.allowed_crafting_machines = mf[1],
                                     !.disallowed_crafting_machines = mf[2]],
       data |-> d] :
        rf \in RecipeFilters, mf \in MachineFilters,
        d \in { BaseData, ChainData,
                GameData(<< >>, << Furnace0 >>, << >>, << >>),
                GameData(<< RecipeSmelt >>, << >>, << >>, << >>),
                GameData(<< RecipeSmelt, RecipeCast >>, << Furnace0, Furnace2 >>, << >>, << >>) } }

ScenariosQuality ==
    { [config |-> [BaseConfig EXCEPT !.max_quality_unlocked = q, !.allow_byproducts = b,
                                     !.check_speed_modules = c],
       data |-> d] :
        q \in QualityChoices, b \in BOOLEAN, c \in BOOLEAN,
        d \in { BaseData, ChainData,
                GameData(<< RecipeSmelt, RecipeCast >>, << Furnace2 >>, << >>, << >>),
                GameData(<< RecipeLeach >>, << Plant1 >>, << >>, << >>) } }

ScenariosResearch ==
    { [config |-> [BaseConfig EXCEPT !.productivity_research = pr], data |-> d] :
        pr \in ResearchChoices,
        d \in { BaseData, ChainData,
                GameData(<< RecipeJunk1, RecipeSmelt >>, << Furnace0 >>, << >>, << >>) } }

ScenariosDemand ==
    { [config |-> [BaseConfig EXCEPT !.inputs = i, !.outputs = o, !.building_cost = c[1],
                                     !.module_cost = c[2], !.allow_byproducts = b,
                                     !.max_quality_unlocked = q],
       data |-> d] :
        i \in InputChoices, o \in OutputChoices, c \in (0..1) \X (0..1), b \in BOOLEAN,
        q \in { "normal", "uncommon" },
        d \in { BaseData, ChainData,
                GameData(<< RecipeSmelt, RecipeCast >>, << Furnace0, Plant1 >>, << >>, << >>) } }

\* requests whose report lists duplicate items, co-products or fluids
ScenariosReport ==
    { [config |-> [BaseConfig EXCEPT !.inputs = i, !.outputs = o, !.allow_byproducts = b,
                                     !.building_cost = c, !.module_cost = c],
       data |-> d] :
        i \in { << Input(<< "ore" >>, "normal", 1, FALSE) >>,
                << Input(<< "water" >>, "normal", 1, FALSE) >>,
                << Input(<< "ore" >>, "normal", 0, TRUE) >>,
                << Input(<< "ore" >>, "normal", 1, FALSE), Input(<< "ore" >>, "normal", 2, FALSE) >> },
        o \in { << >>, << Output(<< "plate" >>, "normal", Scale) >>,
                << Output(<< "plate" >>, "normal", 2 * Scale) >> },
        b \in BOOLEAN, c \in 0..1,
        d \in { ChainData, GameData(<< RecipeDouble >>, << Furnace0 >>, << >>, << >>),
                GameData(<< RecipeRefine >>, << Plant1 >>, << >>, << >>),
                GameData(<< RecipeSmelt, RecipeGhostResult >>, << Furnace0 >>, << >>, << >>) } }

\* requests on a machine with six module slots, with the strongest productivity
\* modules and a large research bonus
ScenariosModules ==
    { [config |-> [BaseConfig EXCEPT !.prod_module_tier = pt, !.productivity_research = pr,
                                     !.check_speed_modules = c, !.max_quality_unlocked = q,
                                     !.outputs = << Output(<< "plate" >>, "normal", o[1]) >>,
                                     !.building_cost = o[2], !.module_cost = o[2]],
       data |-> GameData(<< RecipeSmelt >>, << Assembler6 >>, << >>, << >>)] :
        pt \in { 1, 3 }, pr \in { << >>, << [k |-> << "smelt" >>, v |-> 4 * Scale] >> },
        c \in BOOLEAN, q \in { "normal", "uncommon" },
        o \in { << 2 * Scale, 1 >>, << 8 * Scale, 0 >> } }

\* a machine with many module slots, quality modules of the best and of the
\* plainest kind
ScenariosSlots ==
    { [config |-> [BaseConfig EXCEPT !.quality_module_tier = 3, !.quality_module_quality = qq,
                                     !.prod_module_tier = 3, !.max_quality_unlocked = q],
       data |-> GameData(<< r >>, << Tower17 >>, << >>, << >>)] :
        qq \in { "normal", "legendary" }, q \in { "normal", "uncommon" },
        r \in { RecipeSmelt, RecipeSift } }

Scenarios ==
    ScenariosCatalog \cup ScenariosFilter \cup ScenariosQuality \cup ScenariosResearch
      \cup ScenariosDemand \cup ScenariosReport \cup ScenariosModules
      \cup ScenariosSlots

(***************************************************************************)
(* State                                                                   *)
(***************************************************************************)
VARIABLES
    config,              \* the configuration passed to LinearSolver(config, data)
    data,                \* the game data passed to LinearSolver(config, data)
    pc,                  \* position of the caller in LinearSolver(...) / run()
    err,                 \* the exception that ended the constructor or run(), or "none"
    items,               \* self.items
    recipes,             \* self.recipes
    crafting_machines,   \* self.crafting_machines
    solver_items,        \* self.solver_items: item id -> list of {var, amount}
    solver_recipes,      \* self.solver_recipes: recipe id -> variable
    solver_inputs,       \* self.solver_inputs: item id -> variable
    solver_byproducts,   \* self.solver_byproducts: item id -> variable
    num_modules_var,     \* self.num_modules_var, a linear expression
    num_buildings_var,   \* self.num_buildings_var, a linear expression
    solver_costs,        \* self.solver_costs
    recipe_idx,          \* position of the loop over self.recipes.values() in run()
    machine_choice,      \* what get_best_crafting_machine returned to that loop last
    solver,              \* self.solver: the engine's variables, constraints, objective
    status,              \* what Solve returned
    solution,            \* the engine's value of every variable after Solve
    results,             \* the report run() returns
    runs,                \* number of run() calls on the instance
    qp,                  \* a caller summing calculate_quality_probability_factor
    sh,                  \* two requests sharing one game-data object
    rid,                 \* a caller encoding one recipe id and decoding it again
    chart                \* FlowChartGenerator.write_flow_chart on the solved instance

solverVars ==
    << config, data, pc, err, items, recipes, crafting_machines, solver_items, solver_recipes,
       solver_inputs, solver_byproducts, num_modules_var, num_buildings_var, solver_costs,
       recipe_idx, machine_choice, solver, status, solution, results, runs >>

vars == << solverVars, qp, sh, rid, chart >>

\* get_best_crafting_machine has not returned: the recipe was not allowed, or an
\* error was raised, or the loop has not started
NoChoice == [returned |-> FALSE, machine |-> << >>]

\* pywraplp.Solver.CreateSolver("GLOP"): no variable, no constraint, no objective
NewEngine == [vars |-> << >>, constraints |-> << >>, objective |-> << >>, solves |-> 0]

(***************************************************************************)
(* LinearSolver.__init__                                                   *)
(***************************************************************************)
QualityList(max_quality_unlocked) == [ i \in 1..(max_quality_unlocked + 1) |-> i - 1 ]

\* lines 222-225, one item
ItemWithQuality(item_data, max_quality_unlocked) ==
    LET item_allows_quality == item_data.type # "fluid"
    IN  [allows_quality |-> item_allows_quality,
         qualities |-> IF item_allows_quality THEN QualityList(max_quality_unlocked) ELSE << 0 >>]
        @@ item_data

ItemsWithQuality(items_, max_quality_unlocked) ==
    [ i \in DOMAIN items_ |->
        [k |-> items_[i].k, v |-> ItemWithQuality(items_[i].v, max_quality_unlocked)] ]

\* lines 233-239, one ingredient of recipe recipe_key; st is the loop's state
RECURSIVE NormalizeIngredients(_, _, _, _)
NormalizeIngredients(st, recipe_key, ingredients, items_) ==
    IF ingredients = << >> \/ st.raised # "none" THEN st
    ELSE LET ingredient == Head(ingredients)
             next ==
                 IF ~DictHas(items_, ingredient.name)
                 THEN IF DictHas(st.recipes, recipe_key)
                      THEN [st EXCEPT !.recipes = DictDel(st.recipes, recipe_key)]
                      ELSE [st EXCEPT !.raised = "KeyError"]
                 ELSE IF DictGet(items_, ingredient.name).allows_quality
                      THEN [st EXCEPT !.recipe_allows_quality = TRUE]
                      ELSE st
         IN  NormalizeIngredients(next, recipe_key, Tail(ingredients), items_)

\* lines 229-241, the loop over recipe_keys
RECURSIVE NormalizeRecipes(_, _, _, _)
NormalizeRecipes(st, recipe_keys, items_, max_quality_unlocked) ==
    IF recipe_keys = << >> \/ st.raised # "none" THEN st
    ELSE LET recipe_key == Head(recipe_keys)
             recipe_data == DictGet(st.recipes, recipe_key)
             after == NormalizeIngredients([st EXCEPT !.recipe_allows_quality = FALSE],
                                           recipe_key, recipe_data.ingredients, items_)
             derived == [allows_quality |-> after.recipe_allows_quality,
                         qualities |-> IF after.recipe_allows_quality
                                       THEN QualityList(max_quality_unlocked) ELSE << 0 >>]
             next == IF after.raised = "none" /\ DictHas(after.recipes, recipe_key)
                     THEN [after EXCEPT !.recipes = DictSet(after.recipes, recipe_key,
                                                            derived @@ recipe_data)]
                     ELSE after
         IN  NormalizeRecipes(next, Tail(recipe_keys), items_, max_quality_unlocked)

\* list(self.recipes.keys())
DictKeyList(d) == [ i \in DOMAIN d |-> d[i].k ]

max_quality_unlocked == QualityLevel(config.max_quality_unlocked)

\* disposal wanted whatever the configuration says
allow_byproducts_always == TRUE

\* self.allow_byproducts
allow_byproducts == config.allow_byproducts

Construct ==
    /\ pc = "init"
    /\ LET items_ == ItemsWithQuality(DictByKey(data.items), max_quality_unlocked)
           recipes_ == DictByKey(data.recipes)
           norm == NormalizeRecipes([recipes |-> recipes_, raised |-> "none",
                                     recipe_allows_quality |-> FALSE],
                                    DictKeyList(recipes_), items_, max_quality_unlocked)
       IN  IF norm.raised # "none"
           THEN /\ pc' = "raised"
                /\ err' = norm.raised
                /\ UNCHANGED << items, recipes, crafting_machines >>
           ELSE /\ pc' = "constructed"
                /\ err' = "none"
                /\ items' = items_
                /\ recipes' = norm.recipes
                /\ crafting_machines' = DictByKey(data.crafting_machines)
    /\ solver' = NewEngine
    /\ UNCHANGED << config, data, solver_items, solver_recipes, solver_inputs, solver_byproducts,
                    num_modules_var, num_buildings_var, solver_costs, recipe_idx, machine_choice, status,
                    solution, results, runs, qp, sh, rid, chart >>

(***************************************************************************)
(* Filters and machine selection                                           *)
(***************************************************************************)
\* validate_productivity_research returning from inside its loop: only the first
\* key is looked up
validate_productivity_research_firstKey(productivity_research, recipes_) ==
    IF productivity_research # << >> /\ ~DictHas(recipes_, productivity_research[1].k)
    THEN "NoRecipeForResearch" ELSE "none"

\* lines 260-264
validate_productivity_research(productivity_research, recipes_) ==
    IF \E key \in DictKeys(productivity_research) : ~DictHas(recipes_, key)
    THEN "NoRecipeForResearch" ELSE "none"

recipe_is_allowed(cfg, recipe_key) ==
    IF cfg.allowed_recipes.given /\ cfg.disallowed_recipes.given
    THEN [raised |-> "BothRecipeLists", value |-> FALSE]
    ELSE IF cfg.allowed_recipes.given
    THEN [raised |-> "none", value |-> recipe_key \in cfg.allowed_recipes.keys]
    ELSE IF cfg.disallowed_recipes.given
    THEN [raised |-> "none", value |-> recipe_key \notin cfg.disallowed_recipes.keys]
    ELSE [raised |-> "none", value |-> TRUE]

crafting_machine_is_allowed(cfg, crafting_machine_key) ==
    IF cfg.allowed_crafting_machines.given /\ cfg.disallowed_crafting_machines.given
    THEN [raised |-> "BothMachineLists", value |-> FALSE]
    ELSE IF cfg.allowed_crafting_machines.given
    THEN [raised |-> "none", value |-> crafting_machine_key \in cfg.allowed_crafting_machines.keys]
    ELSE IF cfg.disallowed_crafting_machines.given
    THEN [raised |-> "none",
          value |-> crafting_machine_key \notin cfg.disallowed_crafting_machines.keys]
    ELSE [raised |-> "none", value |-> TRUE]

\* lines 421-424: the machines that are allowed and support the recipe's category,
\* in catalog order; the first machine seen raises when both lists are set
AllowedCraftingMachines(cfg, machines, recipe_category) ==
    IF machines # << >> /\ crafting_machine_is_allowed(cfg, machines[1].key).raised # "none"
    THEN [raised |-> crafting_machine_is_allowed(cfg, machines[1].key).raised, list |-> << >>]
    ELSE [raised |-> "none",
          list |-> SelectSeq(machines,
                             LAMBDA c : /\ crafting_machine_is_allowed(cfg, c.key).value
                                        /\ recipe_category \in c.crafting_categories)]

\* the best machine taken by module slots alone
BestOf_slotsOnly(allowed_crafting_machines) ==
    LET max_module_slots == SetMax({ c.module_slots : c \in Range(allowed_crafting_machines) })
    IN  SelectSeq(allowed_crafting_machines, LAMBDA c : c.module_slots = max_module_slots)

\* lines 430-436
BestOf(allowed_crafting_machines) ==
    LET max_module_slots == SetMax({ c.module_slots : c \in Range(allowed_crafting_machines) })
        max_prod_bonus == SetMax({ c.prod_bonus : c \in Range(allowed_crafting_machines) })
        max_crafting_speed == SetMax({ c.crafting_speed : c \in Range(allowed_crafting_machines) })
    IN  SelectSeq(allowed_crafting_machines,
                  LAMBDA c : /\ c.module_slots = max_module_slots
                             /\ c.prod_bonus = max_prod_bonus
                             /\ c.crafting_speed = max_crafting_speed)

\* get_best_crafting_machine without its early return for an empty candidate list:
\* max() of an empty sequence raises ValueError
get_best_crafting_machine_noEarlyReturn(cfg, machines, recipe_data) ==
    LET allowed == AllowedCraftingMachines(cfg, machines, recipe_data.category)
    IN  IF allowed.raised # "none" THEN [raised |-> allowed.raised, machine |-> << >>]
        ELSE IF Len(allowed.list) = 0 THEN [raised |-> "ValueError", machine |-> << >>]
        ELSE IF Len(BestOf(allowed.list)) # 1
        THEN [raised |-> "Disambiguate", machine |-> << >>]
        ELSE [raised |-> "none", machine |-> << BestOf(allowed.list)[1] >>]

\* the result is [raised, machine]: machine is << >> for None, << m >> for machine m
get_best_crafting_machine(cfg, machines, recipe_data) ==
    LET allowed == AllowedCraftingMachines(cfg, machines, recipe_data.category)
    IN  IF allowed.raised # "none" THEN [raised |-> allowed.raised, machine |-> << >>]
        ELSE IF Len(allowed.list) = 0 THEN [raised |-> "none", machine |-> << >>]
        ELSE IF Len(BestOf(allowed.list)) # 1
        THEN [raised |-> "Disambiguate", machine |-> << >>]
        ELSE [raised |-> "none", machine |-> << BestOf(allowed.list)[1] >>]

(***************************************************************************)
(* Values __init__ derives from the configuration (lines 177-198)          *)
(***************************************************************************)
quality_module_probability(cfg) ==
    QUALITY_PROBABILITIES[cfg.quality_module_tier][QualityLevel(cfg.quality_module_quality) + 1]

prod_module_bonus(cfg) ==
    PROD_BONUSES[cfg.prod_module_tier][QualityLevel(cfg.prod_module_quality) + 1]

speed_module_bonus(cfg) ==
    SPEED_BONUSES[cfg.speed_module_tier][QualityLevel(cfg.speed_module_quality) + 1]

possible_num_beaconed_speed_modules(cfg) ==
    IF cfg.check_speed_modules THEN POSSIBLE_NUM_BEACONED_SPEED_MODULES ELSE << 0 >>

speed_penalty_per_quality_module(cfg) == SPEED_PENALTIES_PER_QUALITY_MODULE[cfg.quality_module_tier]

speed_penalty_per_prod_module(cfg) == SPEED_PENALTIES_PER_PROD_MODULE[cfg.prod_module_tier]

quality_penalty_per_speed_module(cfg) == QUALITY_PENALTIES_PER_SPEED_MODULE[cfg.speed_module_tier]

building_speed_bonus(cfg) == QUALITY_BONUSES[QualityLevel(cfg.building_quality) + 1]

beacon_efficiency(cfg) == BEACON_EFFICIENCIES[QualityLevel(cfg.building_quality) + 1]

(***************************************************************************)
(* The engine                                                              *)
(***************************************************************************)
\* solver.NumVar(0, infinity, name): the new variable is the last of eng.vars
NumVar(eng, name) == [eng EXCEPT !.vars = Append(eng.vars, name)]

LastVar(eng) == Len(eng.vars)

\* the 'var': None of an output demand
NoVar == 0

(***************************************************************************)
(* setup_recipe_var                                                        *)
(***************************************************************************)
\* the product with range(crafting_machine_module_slots) for the quality modules:
\* the full load of quality modules is left out
VariantTuples_rangeSlots(recipe_qualities, crafting_machine_module_slots, beacons) ==
    Flatten([ q \in DOMAIN recipe_qualities |->
        Flatten([ m \in 1..crafting_machine_module_slots |->
            [ b \in DOMAIN beacons |->
                [recipe_quality |-> recipe_qualities[q], num_qual_modules |-> m - 1,
                 num_beaconed_speed_modules |-> beacons[b]] ] ]) ])

\* itertools.product(recipe_qualities, num_possible_qual_modules, possible beacons)
VariantTuples(recipe_qualities, crafting_machine_module_slots, beacons) ==
    Flatten([ q \in DOMAIN recipe_qualities |->
        Flatten([ m \in 1..(crafting_machine_module_slots + 1) |->
            [ b \in DOMAIN beacons |->
                [recipe_quality |-> recipe_qualities[q], num_qual_modules |-> m - 1,
                 num_beaconed_speed_modules |-> beacons[b]] ] ]) ])

\* every slot of the machine takes a productivity module, whatever the number of
\* quality modules
NumProdModules_allSlots(allow_productivity, crafting_machine_module_slots, num_qual_modules) ==
    IF allow_productivity THEN crafting_machine_module_slots ELSE 0

\* lines 352-353
NumProdModules(allow_productivity, crafting_machine_module_slots, num_qual_modules) ==
    IF allow_productivity THEN crafting_machine_module_slots - num_qual_modules ELSE 0

\* the module speed factor taken as computed, without its floor
ClampSpeedFactor_noFloor(module_speed_factor) == module_speed_factor

\* line 369
ClampSpeedFactor(module_speed_factor) == Max2(MINIMUM_MODULE_SPEED_FACTOR, module_speed_factor)

\* lines 349-374: what one pass of the loop computes before it registers the variant
VariantParams(cfg, recipe_data, crafting_machine_data, t) ==
    LET num_qual_modules == t.num_qual_modules
        num_beaconed_speed_modules == t.num_beaconed_speed_modules
        productivity_research ==
            IF DictHas(cfg.productivity_research, recipe_data.key)
            THEN DictGet(cfg.productivity_research, recipe_data.key) ELSE 0
        num_prod_modules == NumProdModules(recipe_data.allow_productivity,
                                           crafting_machine_data.module_slots, num_qual_modules)
        num_effective_speed_modules ==
            calculate_num_effective_speed_modules(num_beaconed_speed_modules,
                                                  beacon_efficiency(cfg))
        prod_bonus_raw == num_prod_modules * prod_module_bonus(cfg)
                            + crafting_machine_data.prod_bonus + productivity_research
        module_speed_factor_raw ==
            Scale + (num_effective_speed_modules * speed_module_bonus(cfg)) \div Scale
              - num_qual_modules * speed_penalty_per_quality_module(cfg)
              - num_prod_modules * speed_penalty_per_prod_module(cfg)
        module_speed_factor == ClampSpeedFactor(module_speed_factor_raw)
        quality_percent_raw ==
            num_qual_modules * quality_module_probability(cfg)
              - (num_effective_speed_modules * quality_penalty_per_speed_module(cfg)) \div Scale
    IN  [recipe_quality |-> t.recipe_quality,
         num_qual_modules |-> num_qual_modules,
         num_prod_modules |-> num_prod_modules,
         num_beaconed_speed_modules |-> num_beaconed_speed_modules,
         num_modules |-> num_qual_modules + num_prod_modules + num_beaconed_speed_modules,
         prod_bonus_raw |-> prod_bonus_raw,
         prod_bonus |-> Min2(MAXIMUM_PRODUCTIVITY_BONUS, prod_bonus_raw),
         module_speed_factor_raw |-> module_speed_factor_raw,
         module_speed_factor |-> module_speed_factor,
         speed_factor |->
             (((crafting_machine_data.crafting_speed * (Scale + building_speed_bonus(cfg)))
                 \div Scale) * module_speed_factor) \div Scale,
         quality_percent_raw |-> quality_percent_raw,
         quality_percent |-> Max2(quality_percent_raw, 0),
         recipe_id |-> get_recipe_id(recipe_data.key, t.recipe_quality,
                                     crafting_machine_data.key, num_qual_modules,
                                     num_prod_modules, num_beaconed_speed_modules)]

\* self.solver_items[item_id].append({'var': var, 'amount': amount}); KeyError
\* when the node does not exist
AppendContribution(st, item_id, var, amount) ==
    IF ~DictHas(st.solver_items, item_id) THEN [st EXCEPT !.raised = "KeyError"]
    ELSE [st EXCEPT !.solver_items =
              DictSet(st.solver_items, item_id,
                      Append(DictGet(st.solver_items, item_id), [var |-> var, amount |-> amount]))]

\* every ingredient is taken at the normal tier, whatever the tier of the recipe
IngredientQuality_normalTier(ingredient_item_data, recipe_quality) == 0

\* line 383
IngredientQuality(ingredient_item_data, recipe_quality) ==
    IF ingredient_item_data.allows_quality THEN recipe_quality ELSE 0

\* lines 381-393
RECURSIVE AddIngredients(_, _, _, _, _, _)
AddIngredients(st, ingredients, recipe_var, p, energy_required, items_) ==
    IF ingredients = << >> \/ st.raised # "none" THEN st
    ELSE LET ingredient == Head(ingredients)
             next ==
                 IF ~DictHas(items_, ingredient.name) THEN [st EXCEPT !.raised = "KeyError"]
                 ELSE LET ingredient_item_data == DictGet(items_, ingredient.name)
                          ingredient_quality ==
                              IngredientQuality(ingredient_item_data, p.recipe_quality)
                          ingredient_item_id == get_item_id(ingredient.name, ingredient_quality)
                          ingredient_amount_per_second_per_building ==
                              (ingredient.amount * p.speed_factor) \div energy_required
                      IN  AppendContribution(st, ingredient_item_id, recipe_var,
                                             (-1) * ingredient_amount_per_second_per_building)
         IN  AddIngredients(next, Tail(ingredients), recipe_var, p, energy_required, items_)

\* lines 401-417, the loop over result_qualities of one result
RECURSIVE AddResultQualities(_, _, _, _, _, _, _, _)
AddResultQualities(st, result_qualities, result_data, result_item_data, recipe_var, p, energy_required, maxq) ==
    IF result_qualities = << >> \/ st.raised # "none" THEN st
    ELSE LET result_quality == Head(result_qualities)
             result_item_id == get_item_id(result_data.name, result_quality)
             expected_amount == calculate_expected_amount(result_data, p.prod_bonus)
             factor == calculate_quality_probability_factor(p.recipe_quality, result_quality,
                                                            maxq, p.quality_percent)
             rate == (expected_amount * p.speed_factor) \div energy_required
             next ==
                 IF result_item_data.allows_quality
                 THEN IF factor.raised # "none" THEN [st EXCEPT !.raised = factor.raised]
                      ELSE AppendContribution(st, result_item_id, recipe_var,
                                              TimesProbability(rate, factor.value))
                 ELSE AppendContribution(st, result_item_id, recipe_var, rate)
         IN  AddResultQualities(next, Tail(result_qualities), result_data, result_item_data,
                                recipe_var, p, energy_required, maxq)

\* lines 395-399
ResultQualities(result_item_data, recipe_quality) ==
    IF result_item_data.allows_quality
    THEN SelectSeq(result_item_data.qualities, LAMBDA quality : quality >= recipe_quality)
    ELSE result_item_data.qualities

RECURSIVE AddResults(_, _, _, _, _, _, _)
AddResults(st, results_, recipe_var, p, energy_required, items_, maxq) ==
    IF results_ = << >> \/ st.raised # "none" THEN st
    ELSE LET result_data == Head(results_)
             next ==
                 IF ~DictHas(items_, result_data.name) THEN [st EXCEPT !.raised = "KeyError"]
                 ELSE LET result_item_data == DictGet(items_, result_data.name)
                      IN  AddResultQualities(st, ResultQualities(result_item_data, p.recipe_quality),
                                             result_data, result_item_data, recipe_var, p,
                                             energy_required, maxq)
         IN  AddResults(next, Tail(results_), recipe_var, p, energy_required, items_, maxq)

\* lines 374-379: the variable of one variant and its share of the two totals
RegisterVariant(st, p) ==
    LET eng == NumVar(st.solver, p.recipe_id)
        recipe_var == LastVar(eng)
    IN  [st EXCEPT !.solver = eng,
                   !.solver_recipes = DictSet(st.solver_recipes, p.recipe_id, recipe_var),
                   !.num_modules_var =
                       IF p.num_modules > 0
                       THEN Append(st.num_modules_var, [var |-> recipe_var, coef |-> p.num_modules])
                       ELSE st.num_modules_var,
                   !.num_buildings_var =
                       Append(st.num_buildings_var, [var |-> recipe_var, coef |-> 1])]

\* lines 351-417, one pass of the loop over the variants of one recipe
AddVariant(st, t, cfg, recipe_data, crafting_machine_data, items_, maxq) ==
    IF st.raised # "none" THEN st
    ELSE LET p == VariantParams(cfg, recipe_data, crafting_machine_data, t)
             registered == RegisterVariant(st, p)
             recipe_var == LastVar(registered.solver)
             with_ingredients == AddIngredients(registered, recipe_data.ingredients, recipe_var, p,
                                                recipe_data.energy_required, items_)
         IN  AddResults(with_ingredients, recipe_data.results, recipe_var, p,
                        recipe_data.energy_required, items_, maxq)

\* the loop: the passes in the order of tuples, each from the state the one before
\* left (the list is walked by halves, which keeps the evaluation shallow)
RECURSIVE AddVariants(_, _, _, _, _, _, _)
AddVariants(st, tuples, cfg, recipe_data, crafting_machine_data, items_, maxq) ==
    IF tuples = << >> THEN st
    ELSE IF Len(tuples) = 1
    THEN AddVariant(st, tuples[1], cfg, recipe_data, crafting_machine_data, items_, maxq)
    ELSE LET half == Len(tuples) \div 2
             first == AddVariants(st, SubSeq(tuples, 1, half), cfg, recipe_data,
                                  crafting_machine_data, items_, maxq)
         IN  IF first.raised # "none" THEN first
             ELSE AddVariants(first, SubSeq(tuples, half + 1, Len(tuples)), cfg, recipe_data,
                              crafting_machine_data, items_, maxq)

setup_recipe_var(st, cfg, recipe_data, crafting_machine_data, items_, maxq) ==
    AddVariants(st,
                VariantTuples(recipe_data.qualities, crafting_machine_data.module_slots,
                              possible_num_beaconed_speed_modules(cfg)),
                cfg, recipe_data, crafting_machine_data, items_, maxq)

(***************************************************************************)
(* LinearSolver.run, step by step                                          *)
(***************************************************************************)
\* the part of the instance that registration changes, as one record
Registration ==
    [solver |-> solver, solver_items |-> solver_items, solver_recipes |-> solver_recipes,
     num_modules_var |-> num_modules_var, num_buildings_var |-> num_buildings_var,
     raised |-> "none"]

\* run() line 442, entered from the caller
RunValidate ==
    /\ pc = "constructed"
    /\ runs' = runs + 1
    /\ LET raised == validate_productivity_research(config.productivity_research, recipes)
       IN  IF raised # "none"
           THEN pc' = "raised" /\ err' = raised
           ELSE pc' = "setup" /\ err' = "none"
    /\ UNCHANGED << config, data, items, recipes, crafting_machines, solver_items,
                    solver_recipes, solver_inputs, solver_byproducts, num_modules_var,
                    num_buildings_var, solver_costs, recipe_idx, machine_choice, solver, status, solution,
                    results, qp, sh, rid, chart >>

\* setup_resource, lines 286-311
setup_resource(st, resource_data) ==
    LET item_key == resource_data.key
        resource_item_key == get_resource_item_key(item_key)
        resource_recipe_key == get_resource_recipe_key(item_key)
        ingredients ==
            << [name |-> resource_item_key, amount |-> Scale] >>
              \o (IF "required_fluid" \in DOMAIN resource_data
                  THEN << [name |-> resource_data.required_fluid,
                           amount |-> resource_data.fluid_amount] >>
                  ELSE << >>)
        mock_item_data == [key |-> resource_item_key, allows_quality |-> FALSE, qualities |-> << 0 >>]
        mock_recipe_data ==
            [key |-> resource_recipe_key, allow_productivity |-> FALSE,
             ingredients |-> ingredients, results |-> resource_data.results,
             energy_required |-> resource_data.mining_time,
             category |-> FieldOr(resource_data, "category", DEFAULT_RESOURCE_CATEGORY),
             allows_quality |-> FALSE, qualities |-> << 0 >>]
    IN  [st EXCEPT !.items = DictSet(st.items, resource_item_key, mock_item_data),
                   !.recipes = DictSet(st.recipes, resource_recipe_key, mock_recipe_data)]

RECURSIVE SetupResources(_, _)
SetupResources(st, resource_list) ==
    IF resource_list = << >> THEN st
    ELSE SetupResources(setup_resource(st, Head(resource_list)), Tail(resource_list))

\* setup_mining_drill, lines 313-326
setup_mining_drill(machines, mining_drill_data) ==
    DictSet(machines, mining_drill_data.key,
            [key |-> mining_drill_data.key, module_slots |-> mining_drill_data.module_slots,
             crafting_speed |-> mining_drill_data.mining_speed,
             crafting_categories |-> mining_drill_data.resource_categories, prod_bonus |-> 0])

RECURSIVE SetupMiningDrills(_, _)
SetupMiningDrills(machines, drill_list) ==
    IF drill_list = << >> THEN machines
    ELSE SetupMiningDrills(setup_mining_drill(machines, Head(drill_list)), Tail(drill_list))

\* setup_item, lines 328-332, for every item: the ids in the order they are created
ItemIds(items_) ==
    Flatten([ i \in DOMAIN items_ |->
        [ q \in DOMAIN items_[i].v.qualities |->
            get_item_id(items_[i].v.key, items_[i].v.qualities[q]) ] ])

RECURSIVE SetupItems(_, _)
SetupItems(nodes, item_ids) ==
    IF item_ids = << >> THEN nodes
    ELSE SetupItems(DictSet(nodes, Head(item_ids), << >>), Tail(item_ids))

\* run() lines 444-455
RunSetup ==
    /\ pc = "setup"
    /\ LET with_modules == NumVar(solver, << "num", "-", "modules" >>)
           with_buildings == NumVar(with_modules, << "num", "-", "buildings" >>)
           catalog == SetupResources([items |-> items, recipes |-> recipes],
                                     DictValues(DictByKey(data.resources)))
       IN  /\ solver' = with_buildings
           /\ num_modules_var' = << [var |-> LastVar(with_modules), coef |-> 1] >>
           /\ num_buildings_var' = << [var |-> LastVar(with_buildings), coef |-> 1] >>
           /\ items' = catalog.items
           /\ recipes' = catalog.recipes
           /\ crafting_machines' =
                  SetupMiningDrills(crafting_machines, DictValues(DictByKey(data.mining_drills)))
           /\ solver_items' = SetupItems(solver_items, ItemIds(catalog.items))
           /\ recipe_idx' = 1
           /\ pc' = IF catalog.recipes = << >> THEN "inputs" ELSE "recipes"
    /\ UNCHANGED << config, data, err, solver_recipes, solver_inputs, solver_byproducts,
                    solver_costs, machine_choice, status, solution, results, runs, qp, sh, rid, chart >>

\* run() lines 458-462 for one recipe; st is the Registration before it
ProcessRecipe(st, cfg, recipe_data, machines, items_, maxq) ==
    LET allowed == recipe_is_allowed(cfg, recipe_data.key)
        best == get_best_crafting_machine(cfg, machines, recipe_data)
    IN  IF allowed.raised # "none" THEN [st EXCEPT !.raised = allowed.raised]
        ELSE IF ~allowed.value THEN st
        ELSE IF best.raised # "none" THEN [st EXCEPT !.raised = best.raised]
        ELSE IF best.machine = << >> THEN st
        ELSE setup_recipe_var(st, cfg, recipe_data, best.machine[1], items_, maxq)

\* lines 459-460: crafting_machine_data of the loop, when the call is made and returns
BestCraftingMachineReturned(cfg, recipe_data, machines) ==
    LET allowed == recipe_is_allowed(cfg, recipe_data.key)
        best == get_best_crafting_machine(cfg, machines, recipe_data)
    IN  IF allowed.raised = "none" /\ allowed.value /\ best.raised = "none"
        THEN [returned |-> TRUE, machine |-> best.machine]
        ELSE NoChoice

\* one pass of the loop of run() lines 457-462
RunRecipe ==
    /\ pc = "recipes"
    /\ LET st == ProcessRecipe(Registration, config, recipes[recipe_idx].v,
                               DictValues(crafting_machines), items, max_quality_unlocked)
       IN  /\ solver' = st.solver
           /\ solver_items' = st.solver_items
           /\ solver_recipes' = st.solver_recipes
           /\ num_modules_var' = st.num_modules_var
           /\ num_buildings_var' = st.num_buildings_var
           /\ machine_choice' = BestCraftingMachineReturned(config, recipes[recipe_idx].v,
                                                            DictValues(crafting_machines))
           /\ IF st.raised # "none"
              THEN pc' = "raised" /\ err' = st.raised /\ UNCHANGED recipe_idx
              ELSE /\ recipe_idx' = recipe_idx + 1
                   /\ pc' = IF recipe_idx = Len(recipes) THEN "inputs" ELSE "recipes"
                   /\ UNCHANGED err
    /\ UNCHANGED << config, data, items, recipes, crafting_machines, solver_inputs,
                    solver_byproducts, solver_costs, status, solution, results, runs, qp, sh, rid, chart >>

\* lines 468-473
InputItemId(input) ==
    get_item_id(IF input.resource THEN get_resource_item_key(input.key) ELSE input.key,
                QualityLevel(input.quality))

\* lines 466-483; st is [solver, solver_items, solver_inputs, solver_costs, raised]
RECURSIVE AddInputs(_, _)
AddInputs(st, inputs) ==
    IF inputs = << >> \/ st.raised # "none" THEN st
    ELSE LET input == Head(inputs)
             item_id == InputItemId(input)
             eng == NumVar(st.solver, get_input_id(item_id))
             solver_item_var == LastVar(eng)
             registered == [st EXCEPT !.solver = eng,
                                      !.solver_inputs =
                                          DictSet(st.solver_inputs, item_id, solver_item_var)]
             appended == AppendContribution(registered, item_id, solver_item_var, Scale)
             next == IF appended.raised # "none" THEN appended
                     ELSE [appended EXCEPT !.solver_costs =
                               Append(appended.solver_costs,
                                      [var |-> solver_item_var, coef |-> input.cost])]
         IN  AddInputs(next, Tail(inputs))

RunInputs ==
    /\ pc = "inputs"
    /\ LET st == AddInputs([solver |-> solver, solver_items |-> solver_items,
                            solver_inputs |-> solver_inputs, solver_costs |-> solver_costs,
                            raised |-> "none"], config.inputs)
       IN  /\ solver' = st.solver
           /\ solver_items' = st.solver_items
           /\ solver_inputs' = st.solver_inputs
           /\ solver_costs' = st.solver_costs
           /\ IF st.raised # "none"
              THEN pc' = "raised" /\ err' = st.raised
              ELSE pc' = "outputs" /\ UNCHANGED err
    /\ UNCHANGED << config, data, items, recipes, crafting_machines, solver_recipes,
                    solver_byproducts, num_modules_var, num_buildings_var, recipe_idx, machine_choice, status,
                    solution, results, runs, qp, sh, rid, chart >>

OutputItemId(output) == get_item_id(output.key, QualityLevel(output.quality))

\* lines 487-497; st is [solver_items, raised]
RECURSIVE AddOutputs(_, _)
AddOutputs(st, outputs) ==
    IF outputs = << >> \/ st.raised # "none" THEN st
    ELSE AddOutputs(AppendContribution(st, OutputItemId(Head(outputs)), NoVar,
                                       (-1) * Head(outputs).amount),
                    Tail(outputs))

RunOutputs ==
    /\ pc = "outputs"
    /\ LET st == AddOutputs([solver_items |-> solver_items, raised |-> "none"], config.outputs)
       IN  /\ solver_items' = st.solver_items
           /\ IF st.raised # "none"
              THEN pc' = "raised" /\ err' = st.raised
              ELSE pc' = "byproducts" /\ UNCHANGED err
    /\ UNCHANGED << config, data, items, recipes, crafting_machines, solver_recipes,
                    solver_inputs, solver_byproducts, num_modules_var, num_buildings_var,
                    solver_costs, recipe_idx, machine_choice, solver, status, solution, results, runs, qp, sh, rid, chart >>

\* the locals solver_input_item_ids and solver_output_item_ids of run() once both
\* loops have completed
solver_input_item_ids == { InputItemId(config.inputs[i]) : i \in DOMAIN config.inputs }

solver_output_item_ids == { OutputItemId(config.outputs[i]) : i \in DOMAIN config.outputs }

\* line 505 with the declared outputs left out of the test
IsByproductNode_notInput(byproduct_item_id, input_ids, output_ids) ==
    byproduct_item_id \notin input_ids

\* line 505
IsByproductNode(byproduct_item_id, input_ids, output_ids) ==
    byproduct_item_id \notin input_ids /\ byproduct_item_id \notin output_ids

\* lines 500-513; st is [solver, solver_items, solver_byproducts, raised]
RECURSIVE AddByproducts(_, _, _, _)
AddByproducts(st, item_ids, input_ids, output_ids) ==
    IF item_ids = << >> \/ st.raised # "none" THEN st
    ELSE LET byproduct_item_id == Head(item_ids)
             eng == NumVar(st.solver, get_byproduct_id(byproduct_item_id))
             solver_item_var == LastVar(eng)
             next ==
                 IF IsByproductNode(byproduct_item_id, input_ids, output_ids)
                 THEN AppendContribution(
                          [st EXCEPT !.solver = eng,
                                     !.solver_byproducts =
                                         DictSet(st.solver_byproducts, byproduct_item_id,
                                                 solver_item_var)],
                          byproduct_item_id, solver_item_var, (-1) * Scale)
                 ELSE st
         IN  AddByproducts(next, Tail(item_ids), input_ids, output_ids)

RunByproducts ==
    /\ pc = "byproducts"
    /\ LET st == IF allow_byproducts
                 THEN AddByproducts([solver |-> solver, solver_items |-> solver_items,
                                     solver_byproducts |-> solver_byproducts, raised |-> "none"],
                                    ItemIds(items), solver_input_item_ids,
                                    solver_output_item_ids)
                 ELSE [solver |-> solver, solver_items |-> solver_items,
                       solver_byproducts |-> solver_byproducts, raised |-> "none"]
       IN  /\ solver' = st.solver
           /\ solver_items' = st.solver_items
           /\ solver_byproducts' = st.solver_byproducts
           /\ IF st.raised # "none"
              THEN pc' = "raised" /\ err' = st.raised
              ELSE pc' = "constraints" /\ UNCHANGED err
    /\ UNCHANGED << config, data, items, recipes, crafting_machines, solver_recipes,
                    solver_inputs, num_modules_var, num_buildings_var, solver_costs, recipe_idx, machine_choice,
                    status, solution, results, runs, qp, sh, rid, chart >>

\* the constraint of a node without the branch for factor['var'] is None: the
\* constant contributions are left out of the sum
BuildConstraint_skipNone(solver_vars) ==
    LET kept == SelectSeq(solver_vars, LAMBDA factor : factor.var # NoVar)
    IN  [ i \in DOMAIN kept |-> [var |-> kept[i].var, coef |-> kept[i].amount] ]

\* lines 516-522: the equality constraint sum(...) == 0 of one node, as the list of
\* its terms (a term with var = NoVar is a constant)
BuildConstraint(solver_vars) ==
    [ i \in DOMAIN solver_vars |-> [var |-> solver_vars[i].var, coef |-> solver_vars[i].amount] ]

\* expression * scalar
ScaleExpr(expr, scalar) == [ i \in DOMAIN expr |-> [var |-> expr[i].var, coef |-> expr[i].coef * scalar] ]

\* run() lines 515-526
RunConstraints ==
    /\ pc = "constraints"
    /\ LET costs == solver_costs \o ScaleExpr(num_modules_var, config.module_cost)
                      \o ScaleExpr(num_buildings_var, config.building_cost)
       IN  /\ solver_costs' = costs
           /\ solver' = [solver EXCEPT
                  !.constraints = solver.constraints
                      \o [ i \in DOMAIN solver_items |-> BuildConstraint(solver_items[i].v) ],
                  !.objective = costs]
    /\ pc' = "solve"
    /\ UNCHANGED << config, data, err, items, recipes, crafting_machines, solver_items,
                    solver_recipes, solver_inputs, solver_byproducts, num_modules_var,
                    num_buildings_var, recipe_idx, machine_choice, status, solution, results, runs, qp, sh, rid, chart >>

(***************************************************************************)
(* The external engine's Solve, by its contract: an optimal solution gives *)
(* every variable a value >= 0, satisfies every constraint added and       *)
(* minimizes the objective.  The model looks for it among the assignments  *)
(* of values in 0..MaxVal to the variables.                                *)
(***************************************************************************)
TermValue(term, sol) == IF term.var = NoVar THEN term.coef ELSE term.coef * sol[term.var]

RECURSIVE ExprValue(_, _)
ExprValue(expr, sol) ==
    IF expr = << >> THEN 0 ELSE TermValue(Head(expr), sol) + ExprValue(Tail(expr), sol)

Feasible(eng, sol) == \A c \in DOMAIN eng.constraints : ExprValue(eng.constraints[c], sol) = 0

\* The least and the greatest value an expression can still take when the
\* variables 1..Len(partial) have the values of partial and the others are free
\* in 0..MaxVal
TermLow(term, partial) ==
    IF term.var = NoVar THEN term.coef
    ELSE IF term.var <= Len(partial) THEN term.coef * partial[term.var]
    ELSE IF term.coef < 0 THEN term.coef * MaxVal ELSE 0

TermHigh(term, partial) ==
    IF term.var = NoVar THEN term.coef
    ELSE IF term.var <= Len(partial) THEN term.coef * partial[term.var]
    ELSE IF term.coef > 0 THEN term.coef * MaxVal ELSE 0

RECURSIVE ExprLow(_, _)
ExprLow(expr, partial) ==
    IF expr = << >> THEN 0 ELSE TermLow(Head(expr), partial) + ExprLow(Tail(expr), partial)

RECURSIVE ExprHigh(_, _)
ExprHigh(expr, partial) ==
    IF expr = << >> THEN 0 ELSE TermHigh(Head(expr), partial) + ExprHigh(Tail(expr), partial)

Viable(eng, partial) ==
    \A c \in DOMAIN eng.constraints :
        /\ ExprLow(eng.constraints[c], partial) <= 0
        /\ ExprHigh(eng.constraints[c], partial) >= 0

\* { sol \in [1..Len(eng.vars) -> 0..MaxVal] : Feasible(eng, sol) }, enumerated
\* variable by variable; a partial assignment no completion of which can satisfy
\* some constraint is dropped early
RECURSIVE Completions(_, _)
Completions(eng, partial) ==
    IF ~Viable(eng, partial) THEN { }
    ELSE IF Len(partial) = Len(eng.vars) THEN { partial }
    ELSE UNION { Completions(eng, Append(partial, v)) : v \in 0..MaxVal }

FeasibleSolutions(eng) == Completions(eng, << >>)

OptimalSolutions(eng) ==
    LET feasible == FeasibleSolutions(eng)
    IN  { sol \in feasible :
            \A other \in feasible : ExprValue(eng.objective, sol) <= ExprValue(eng.objective, other) }

\* statuses other than OPTIMAL and INFEASIBLE that Solve may return whatever the
\* problem looks like to the model (which bounds every value by MaxVal)
EngineFailures == { "ABNORMAL", "UNBOUNDED" }

\* run() line 528
RunSolve ==
    /\ pc = "solve"
    /\ solver' = [solver EXCEPT !.solves = @ + 1]
    /\ \/ /\ Len(solver.vars) <= EngineMaxVars
          /\ \E sol \in OptimalSolutions(solver) : status' = "OPTIMAL" /\ solution' = sol
       \/ /\ Len(solver.vars) <= EngineMaxVars
          /\ OptimalSolutions(solver) = { }
          /\ status' = "INFEASIBLE" /\ solution' = << >>
       \/ /\ Len(solver.vars) > EngineMaxVars
          /\ status' = "NOT_SOLVED" /\ solution' = << >>
       \/ \E failure \in EngineFailures : status' = failure /\ solution' = << >>
    /\ pc' = "extract"
    /\ UNCHANGED << config, data, err, items, recipes, crafting_machines, solver_items,
                    solver_recipes, solver_inputs, solver_byproducts, num_modules_var,
                    num_buildings_var, solver_costs, recipe_idx, machine_choice, results, runs, qp, sh, rid, chart >>

(***************************************************************************)
(* run() lines 530-634: the report.  Values of variables are the engine's  *)
(* (whole numbers of buildings or items per second); a total amount is a   *)
(* per-building rate (in units of 1/Scale) times a number of buildings.    *)
(* The test "> 1e-9" on such values is "> 0".                              *)
(***************************************************************************)
\* d[k1][k2] = val on a defaultdict(dict)
DictSet2(d, k1, k2, val) ==
    DictSet(d, k1, DictSet(IF DictHas(d, k1) THEN DictGet(d, k1) ELSE << >>, k2, val))

\* d[k].append(val) on a defaultdict(list)
DictAppend(d, k, val) ==
    DictSet(d, k, Append(IF DictHas(d, k) THEN DictGet(d, k) ELSE << >>, val))

\* d[k1][k2].append(val) on a defaultdict(lambda: defaultdict(list))
DictAppend2(d, k1, k2, val) ==
    DictSet(d, k1, DictAppend(IF DictHas(d, k1) THEN DictGet(d, k1) ELSE << >>, k2, val))

\* the test without the epsilon: var.solution_value() >= 0
AboveEpsilon_orZero(var, sol) == sol[var] >= 0

\* var.solution_value() > 1e-9
AboveEpsilon(var, sol) == sol[var] > 0

\* lines 541-550; st is [input_items, input_resources]
RECURSIVE ExtractInputs(_, _, _, _)
ExtractInputs(st, input_vars, eng, sol) ==
    IF input_vars = << >> THEN st
    ELSE LET input_var == Head(input_vars)
             input_info == parse_input_id(eng.vars[input_var])
             raw_item_key == input_info.item_key
             next ==
                 IF ~AboveEpsilon(input_var, sol) THEN st
                 ELSE IF EndsWith(raw_item_key, << "--", "resource" >>)
                 THEN [st EXCEPT !.input_resources =
                           DictSet(st.input_resources, KeyStem(raw_item_key), sol[input_var])]
                 ELSE [st EXCEPT !.input_items =
                           DictSet2(st.input_items, raw_item_key, input_info.item_quality,
                                    sol[input_var])]
         IN  ExtractInputs(next, Tail(input_vars), eng, sol)

\* lines 554-557
RECURSIVE ExtractByproducts(_, _, _, _)
ExtractByproducts(byproducts, byproduct_vars, eng, sol) ==
    IF byproduct_vars = << >> THEN byproducts
    ELSE LET byproduct_var == Head(byproduct_vars)
             byproduct_info == parse_byproduct_id(eng.vars[byproduct_var])
             next ==
                 IF ~AboveEpsilon(byproduct_var, sol) THEN byproducts
                 ELSE DictSet2(byproducts, byproduct_info.item_key, byproduct_info.item_quality,
                               sol[byproduct_var])
         IN  ExtractByproducts(next, Tail(byproduct_vars), eng, sol)

\* the local variable 'amount' of run() at line 601: what the loop over the
\* outputs (line 491) left in it, unbound when there is no output
LastOutputAmount(outputs) ==
    IF outputs = << >> THEN [bound |-> FALSE, value |-> 0]
    ELSE [bound |-> TRUE, value |-> outputs[Len(outputs)].amount]

\* the pairs (item_id, solver_var_info) in the order the loops of lines 586 and
\* 593 visit them
NodeTerms(nodes) ==
    Flatten([ n \in DOMAIN nodes |->
        [ c \in DOMAIN nodes[n].v |-> [item_id |-> nodes[n].k, info |-> nodes[n].v[c]] ] ])

\* lines 587-607 for one solver_var_info of one node;
\* st is [resource_consumption, ingredients, products, raised]
ScanTerm(st, term, recipe_var, raw_recipe_key, factorio_recipe_key, num_buildings, amount) ==
    LET item_info == parse_item_id(term.item_id)
        raw_item_key == item_info.item_key
        factorio_item_key ==
            IF EndsWith(raw_item_key, << "--", "resource" >>) THEN KeyStem(raw_item_key)
            ELSE raw_item_key
        total_amount == term.info.amount * num_buildings
    IN  IF term.info.var # recipe_var THEN st
        ELSE IF total_amount < 0
        THEN IF EndsWith(raw_recipe_key, << "--", "mining" >>)
             THEN IF factorio_item_key = factorio_recipe_key
                  THEN IF ~amount.bound THEN [st EXCEPT !.raised = "UnboundLocalError"]
                       ELSE [st EXCEPT !.resource_consumption = << (-1) * amount.value >>]
                  ELSE [st EXCEPT !.ingredients =
                            DictSet(st.ingredients, factorio_item_key, (-1) * total_amount)]
             ELSE [st EXCEPT !.ingredients =
                       DictSet2(st.ingredients, factorio_item_key, item_info.item_quality,
                                (-1) * total_amount)]
        ELSE IF total_amount > 0
        THEN [st EXCEPT !.products =
                  DictSet2(st.products, item_info.item_key, item_info.item_quality, total_amount)]
        ELSE st

\* the two loops of lines 586-607 over the nodes and their terms
RECURSIVE ScanTerms(_, _, _, _, _, _, _)
ScanTerms(st, terms, recipe_var, raw_recipe_key, factorio_recipe_key, num_buildings, amount) ==
    IF terms = << >> \/ st.raised # "none" THEN st
    ELSE ScanTerms(ScanTerm(st, Head(terms), recipe_var, raw_recipe_key, factorio_recipe_key,
                            num_buildings, amount),
                   Tail(terms), recipe_var, raw_recipe_key, factorio_recipe_key, num_buildings,
                   amount)

\* lines 562-629 for one recipe_var; st is [mining_recipes, crafting_recipes, raised]
ExtractRecipe(st, recipe_var, eng, sol, nodes, amount) ==
    LET recipe_info == parse_recipe_id(eng.vars[recipe_var])
        raw_recipe_key == recipe_info.recipe_key
        num_buildings == sol[recipe_var]
        is_mining == EndsWith(raw_recipe_key, << "--", "mining" >>)
        factorio_recipe_key == IF is_mining THEN KeyStem(raw_recipe_key) ELSE raw_recipe_key
        scanned == ScanTerms([resource_consumption |-> << >>, ingredients |-> << >>,
                              products |-> << >>, raised |-> "none"],
                             NodeTerms(nodes), recipe_var, raw_recipe_key, factorio_recipe_key,
                             num_buildings, amount)
        entry == [num_buildings |-> sol[recipe_var],
                  machine |-> recipe_info.machine,
                  num_prod_modules |-> recipe_info.num_prod_modules,
                  num_qual_modules |-> recipe_info.num_qual_modules,
                  num_beaconed_speed_modules |-> recipe_info.num_beaconed_speed_modules,
                  ingredients |-> scanned.ingredients,
                  products |-> scanned.products]
    IN  IF ~AboveEpsilon(recipe_var, sol) THEN st
        ELSE IF scanned.raised # "none" THEN [st EXCEPT !.raised = scanned.raised]
        ELSE IF is_mining
        THEN [st EXCEPT !.mining_recipes =
                  DictAppend(st.mining_recipes, factorio_recipe_key,
                             entry @@ [resource_consumption |-> scanned.resource_consumption])]
        ELSE [st EXCEPT !.crafting_recipes =
                  DictAppend2(st.crafting_recipes, factorio_recipe_key,
                              recipe_info.recipe_quality, entry)]

\* the loop of line 561
RECURSIVE ExtractRecipes(_, _, _, _, _, _)
ExtractRecipes(st, recipe_vars, eng, sol, nodes, amount) ==
    IF recipe_vars = << >> \/ st.raised # "none" THEN st
    ELSE ExtractRecipes(ExtractRecipe(st, Head(recipe_vars), eng, sol, nodes, amount),
                        Tail(recipe_vars), eng, sol, nodes, amount)

\* lines 559-629 on the instance
ExtractedRecipes ==
    ExtractRecipes([mining_recipes |-> << >>, crafting_recipes |-> << >>, raised |-> "none"],
                   DictValues(solver_recipes), solver, solution, solver_items,
                   LastOutputAmount(config.outputs))

\* lines 533-550 and 559-629: the fields every solved report holds
SolvedReportBase ==
    LET inputs == ExtractInputs([input_items |-> << >>, input_resources |-> << >>],
                                DictValues(solver_inputs), solver, solution)
    IN  [solved |-> TRUE,
         cost |-> ExprValue(solver.objective, solution),
         num_buildings |-> ExprValue(num_buildings_var, solution),
         num_modules |-> ExprValue(num_modules_var, solution),
         input_items |-> inputs.input_items,
         input_resources |-> inputs.input_resources,
         mining_recipes |-> ExtractedRecipes.mining_recipes,
         crafting_recipes |-> ExtractedRecipes.crafting_recipes]

\* lines 552-557
ReportedByproducts == ExtractByproducts(<< >>, DictValues(solver_byproducts), solver, solution)

\* the report without the test of line 552: 'byproducts' is always there
SolvedReport_byproductsAlways == SolvedReportBase @@ [byproducts |-> ReportedByproducts]

\* the report of a solved model, lines 533-629
SolvedReport ==
    IF allow_byproducts THEN SolvedReportBase @@ [byproducts |-> ReportedByproducts]
    ELSE SolvedReportBase

\* run() lines 530-634, the value returned
Report == IF status = "OPTIMAL" THEN SolvedReport ELSE [solved |-> FALSE]

\* run() lines 530-634
RunExtract ==
    /\ pc = "extract"
    /\ IF status = "OPTIMAL" /\ ExtractedRecipes.raised # "none"
       THEN pc' = "raised" /\ err' = ExtractedRecipes.raised /\ UNCHANGED results
       ELSE pc' = "done" /\ results' = Report /\ UNCHANGED err
    /\ UNCHANGED << config, data, items, recipes, crafting_machines, solver_items,
                    solver_recipes, solver_inputs, solver_byproducts, num_modules_var,
                    num_buildings_var, solver_costs, recipe_idx, machine_choice, solver, status, solution,
                    runs, qp, sh, rid, chart >>

(***************************************************************************)
(* One request: LinearSolver(config, data) then run(), as                  *)
(* run_solver_from_command_line and index_post call them                   *)
(***************************************************************************)
QpIdle == [pc |-> "idle"]

ShIdle == [pc |-> "idle"]

RidIdle == [pc |-> "idle"]

ChartIdle == [pc |-> "idle"]

\* the fields of an instance nothing has been constructed into yet
NoInstance ==
    /\ err = "none"
    /\ items = << >>
    /\ recipes = << >>
    /\ crafting_machines = << >>
    /\ solver_items = << >>
    /\ solver_recipes = << >>
    /\ solver_inputs = << >>
    /\ solver_byproducts = << >>
    /\ num_modules_var = << >>
    /\ num_buildings_var = << >>
    /\ solver_costs = << >>
    /\ recipe_idx = 0
    /\ machine_choice = NoChoice
    /\ solver = NewEngine
    /\ status = "none"
    /\ solution = << >>
    /\ results = [solved |-> FALSE]
    /\ runs = 0

Init ==
    /\ \E sc \in Scenarios : config = sc.config /\ data = sc.data
    /\ pc = "init"
    /\ NoInstance
    /\ qp = QpIdle
    /\ sh = ShIdle
    /\ rid = RidIdle
    /\ chart = ChartIdle

Next ==
    \/ Construct
    \/ RunValidate
    \/ RunSetup
    \/ RunRecipe
    \/ RunInputs
    \/ RunOutputs
    \/ RunByproducts
    \/ RunConstraints
    \/ RunSolve
    \/ RunExtract

Spec == Init /\ [][Next]_vars

(***************************************************************************)
(* scripts/flow_chart.py: FlowChartGenerator(solver.solver_recipes,        *)
(* solver.recipes, solver.items, verbose).write_flow_chart(path), called   *)
(* by run_solver_from_command_line once run() has returned (lines 776-777). *)
(* Strings are token sequences; a node of the chart is kept as the record  *)
(* of the parts its text is formatted from.                                *)
(***************************************************************************)
\* parse_recipe_id of scripts/utils.py: the counts stay strings
utils_parse_recipe_id(recipe_id) ==
    LET objs == Split(recipe_id, "__")
    IN  [recipe_quality |-> objs[1][1],
         recipe_name |-> objs[2],
         machine |-> objs[3],
         num_qual_modules |-> Split(objs[4], "-")[1],
         num_prod_modules |-> Split(objs[5], "-")[1]]

\* the modules `import linear_solver` of flow_chart.py can find: the one of the
\* solver package, or one next to the script with the parse_recipe_id of
\* scripts/utils.py
ParserModules == { "solver", "scripts" }

linear_solver_parse_recipe_id(module, recipe_id) ==
    IF module = "solver" THEN parse_recipe_id(recipe_id) ELSE utils_parse_recipe_id(recipe_id)

\* s.replace(sub, '') for a non-empty sub
RECURSIVE RemoveSub(_, _)
RemoveSub(s, sub) ==
    IF Len(s) < Len(sub) THEN s
    ELSE IF SubSeq(s, 1, Len(sub)) = sub THEN RemoveSub(SubSeq(s, Len(sub) + 1, Len(s)), sub)
    ELSE << Head(s) >> \o RemoveSub(Tail(s), sub)

\* recipe_var.solution_value(), in units of 1/Scale; 0.0 when Solve left no solution
solution_value(var) == IF status = "OPTIMAL" THEN solution[var] * Scale ELSE 0

\* math.ceil of a value in units of 1/Scale
math_ceil(x) == (x + Scale - 1) \div Scale

\* lines 20-35; st is [variants, raised]
RECURSIVE collect_recipe_variants(_, _, _)
collect_recipe_variants(st, recipe_vars, module) ==
    IF recipe_vars = << >> \/ st.raised # "none" THEN st
    ELSE LET recipe_var == Head(recipe_vars)
             parsed == linear_solver_parse_recipe_id(module, solver.vars[recipe_var])
             variant == [solution_value |-> solution_value(recipe_var)] @@ parsed
             recipe_name == IF variant.machine = << "recycler" >>
                            THEN RemoveSub(variant.recipe_name, << "-", "recycling" >>)
                            ELSE variant.recipe_name
             next == IF solution_value(recipe_var) > 0
                     THEN IF "recipe_name" \notin DOMAIN variant
                          THEN [st EXCEPT !.raised = "KeyError"]
                          ELSE [st EXCEPT !.variants = DictAppend(st.variants, recipe_name, variant)]
                     ELSE st
         IN  collect_recipe_variants(next, Tail(recipe_vars), module)

\* lines 37-44
format_modules(num_qual, num_prod) ==
    LET mods == (IF TokenInt(num_qual) # 0 THEN num_qual \o << "Q" >> ELSE << >>)
                  \o (IF TokenInt(num_prod) # 0 THEN num_prod \o << "P" >> ELSE << >>)
    IN  IF mods # << >> THEN << " " >> \o mods ELSE << >>

\* lines 46-54
get_node_ids(recipe, variant) ==
    [graph_id |-> recipe \o << "_" >> \o variant.machine \o << "_", variant.recipe_quality >>,
     class_id |-> << variant.recipe_quality >>
                    \o (IF variant.machine = << "recycler" >> THEN << "-", "recycling" >>
                        ELSE << >>)]

\* lines 12-18
get_localized_name(item_id, dictionary) ==
    IF DictHas(dictionary, item_id) /\ "localized_name" \in DOMAIN DictGet(dictionary, item_id)
    THEN DictGet(dictionary, item_id).localized_name.en
    ELSE item_id

\* lines 61-77, one variant of the list; st is [output_lines, classes]
RenderNode(st, recipe, variant) ==
    LET ids == get_node_ids(recipe, variant)
        name == get_localized_name(variant.recipe_name, recipes)
    IN  [output_lines |->
             Append(st.output_lines,
                    [graph_id |-> ids.graph_id,
                     name |-> RemoveSub(RemoveSub(name, << "(" >>), << ")" >>),
                     recipe_quality |-> variant.recipe_quality,
                     machine |-> get_localized_name(variant.machine, items),
                     mods |-> format_modules(variant.num_qual_modules, variant.num_prod_modules),
                     count |-> math_ceil(variant.solution_value)]),
         classes |-> DictAppend(st.classes, ids.class_id, ids.graph_id)]

RECURSIVE RenderNodes(_, _, _)
RenderNodes(st, recipe, variant_list) ==
    IF variant_list = << >> THEN st
    ELSE RenderNodes(RenderNode(st, recipe, Head(variant_list)), recipe, Tail(variant_list))

\* lines 56-80; st is [subgraphs, classes]
render_variant(st, recipe, variant_list) ==
    LET rendered == RenderNodes([output_lines |-> << >>, classes |-> st.classes],
                                recipe, variant_list)
    IN  [subgraphs |-> Append(st.subgraphs,
                              [recipe_name |-> get_localized_name(recipe, recipes),
                               nodes |-> rendered.output_lines]),
         classes |-> rendered.classes]

\* lines 103-106
RECURSIVE RenderVariants(_, _)
RenderVariants(st, variants) ==
    IF variants = << >> THEN st
    ELSE RenderVariants(render_variant(st, Head(variants).k, Head(variants).v), Tail(variants))

\* lines 97-140
WriteFlowChart ==
    /\ pc = "done"
    /\ chart.pc = "idle"
    /\ \E module \in ParserModules :
           LET collected == collect_recipe_variants([variants |-> << >>, raised |-> "none"],
                                                    DictValues(solver_recipes), module)
               rendered == RenderVariants([subgraphs |-> << >>, classes |-> << >>],
                                          collected.variants)
           IN  chart' = IF collected.raised # "none"
                        THEN [pc |-> "raised", err |-> collected.raised, module |-> module]
                        ELSE [pc |-> "written", module |-> module,
                              subgraphs |-> rendered.subgraphs, classes |-> rendered.classes]
    /\ UNCHANGED << solverVars, qp, sh, rid >>

\* the requests whose chart is written
ScenariosChart == ScenariosModules \cup ScenariosReport

InitChart ==
    /\ \E sc \in ScenariosChart : config = sc.config /\ data = sc.data
    /\ pc = "init"
    /\ NoInstance
    /\ qp = QpIdle
    /\ sh = ShIdle
    /\ rid = RidIdle
    /\ chart = ChartIdle

NextChart ==
    \/ Next
    \/ WriteFlowChart

SpecChart == InitChart /\ [][NextChart]_vars

(***************************************************************************)
(* calculate_quality_probability_factor over the result qualities of one   *)
(* craft, as the loop of setup_recipe_var walks them (lines 395-417): the  *)
(* factors of the ending qualities starting_quality..max_quality_unlocked  *)
(* are added up in qp.total.                                               *)
(***************************************************************************)
\* most quality modules a machine holds in the quality percents drawn below
MaxQualModules == 4

\* num_qual_modules * quality_module_probability for every module tier and quality
QualityPercents ==
    { n * QUALITY_PROBABILITIES[t][l] :
        n \in 0..MaxQualModules, t \in DOMAIN QUALITY_PROBABILITIES, l \in DOMAIN QUALITY_NAMES }

QpInit ==
    /\ config = BaseConfig
    /\ data = BaseData
    /\ pc = "idle"
    /\ NoInstance
    /\ sh = ShIdle
    /\ rid = RidIdle
    /\ chart = ChartIdle
    /\ \E m \in 0..MaxJumps : \E s \in 0..m : \E q \in QualityPercents :
           qp = [pc |-> "sum", starting_quality |-> s, max_quality_unlocked |-> m,
                 quality_percent |-> q, ending_quality |-> s, total |-> 0,
                 raised |-> "none"]

\* one pass of the loop over result_qualities
QpAddFactor ==
    /\ qp.pc = "sum"
    /\ LET factor == calculate_quality_probability_factor(
                         qp.starting_quality, qp.ending_quality, qp.max_quality_unlocked,
                         qp.quality_percent)
       IN  qp' = IF factor.raised # "none"
                 THEN [qp EXCEPT !.pc = "raised", !.raised = factor.raised]
                 ELSE [qp EXCEPT !.total = @ + factor.value,
                                 !.ending_quality = @ + 1,
                                 !.pc = IF qp.ending_quality = qp.max_quality_unlocked
                                        THEN "done" ELSE "sum"]
    /\ UNCHANGED << solverVars, sh, rid, chart >>

QpNext == QpAddFactor

SpecProb == QpInit /\ [][QpNext]_vars

\* C2: for every unlocked maximum tier m in 0..4, every starting tier s <= m and
\* every quality percent q, the factors of the ending tiers s..m are all computed
\* without an error and add up to exactly 1 (ProbOne in the model's units).
C2_FactorsSumToOne ==
    /\ qp.pc # "raised"
    /\ qp.pc = "done" => qp.total = ProbOne

\* a craft below the top tier with a non-zero quality percent has been summed over
\* at least three ending tiers
C2_Witness ==
    /\ qp.pc = "done"
    /\ qp.quality_percent > 0
    /\ qp.max_quality_unlocked - qp.starting_quality >= 2
    /\ qp.total = ProbOne

(***************************************************************************)
(* One call of calculate_quality_probability_factor (lines 76-106) with    *)
(* any three tiers, in any order, and any quality percent                  *)
(***************************************************************************)
QfInit ==
    /\ config = BaseConfig
    /\ data = BaseData
    /\ pc = "idle"
    /\ NoInstance
    /\ sh = ShIdle
    /\ rid = RidIdle
    /\ chart = ChartIdle
    /\ \E s \in 0..MaxJumps : \E e \in 0..MaxJumps : \E m \in 0..MaxJumps :
       \E q \in QualityPercents :
           qp = [pc |-> "call", starting_quality |-> s, ending_quality |-> e,
                 max_quality_unlocked |-> m, quality_percent |-> q,
                 returned |-> << >>, raised |-> "none"]

\* the call: the caller gets a value, or the exception
QfCall ==
    /\ qp.pc = "call"
    /\ LET factor == calculate_quality_probability_factor(
                         qp.starting_quality, qp.ending_quality, qp.max_quality_unlocked,
                         qp.quality_percent)
       IN  qp' = IF factor.raised # "none"
                 THEN [qp EXCEPT !.pc = "raised", !.raised = factor.raised]
                 ELSE [qp EXCEPT !.pc = "returned", !.returned = << factor.value >>]
    /\ UNCHANGED << solverVars, sh, rid, chart >>

QfNext == QfCall

SpecFactor == QfInit /\ [][QfNext]_vars

\* the tiers of the call are outside the domain of the function
OutsideDomain ==
    \/ qp.starting_quality > qp.max_quality_unlocked
    \/ qp.ending_quality > qp.max_quality_unlocked
    \/ qp.ending_quality < qp.starting_quality

\* C23: calculate_quality_probability_factor raises ValueError and returns no
\* value when the starting tier or the ending tier is above the unlocked maximum
\* or the ending tier is below the starting tier; for all other tiers it returns
\* a value, and it never raises the RuntimeError of its last branch.
C23_DomainErrors ==
    /\ qp.raised # "RuntimeError"
    /\ qp.pc # "call" =>
           IF OutsideDomain
           THEN qp.pc = "raised" /\ qp.raised = "ValueError" /\ qp.returned = << >>
           ELSE qp.pc = "returned" /\ qp.raised = "none" /\ Len(qp.returned) = 1

\* a call with the ending tier below the starting tier, both unlocked, has raised
C23_Witness ==
    /\ qp.pc = "raised"
    /\ qp.raised = "ValueError"
    /\ qp.ending_quality < qp.starting_quality
    /\ qp.starting_quality <= qp.max_quality_unlocked

(***************************************************************************)
(* get_recipe_id followed by parse_recipe_id (lines 108-120), as setup_     *)
(* recipe_var names a variant and the extraction of run() reads the name   *)
(* back: the caller encodes one tuple, then decodes the id it got.         *)
(***************************************************************************)
\* most quality or productivity modules in the tuples drawn below
MaxIdModules == 2

\* every recipe key of the catalogs, and the synthetic key of the mined resource
IdRecipeKeys ==
    { RecipeSmelt.key, RecipeCast.key, RecipeRocket.key, RecipeJunk1.key, RecipeJunkMixed.key,
      RecipeJunk2.key, get_resource_recipe_key(ResourceOre.key) }

\* every machine key of the catalogs, and the mining drill
IdMachineKeys ==
    { Furnace0.key, Furnace2.key, Furnace2Twin.key, FurnaceWide.key, FurnaceFast.key,
      Plant1.key, Drill.key }

RidInit ==
    /\ chart = ChartIdle
    /\ config = BaseConfig
    /\ data = BaseData
    /\ pc = "idle"
    /\ NoInstance
    /\ qp = QpIdle
    /\ sh = ShIdle
    /\ \E recipe_key \in IdRecipeKeys : \E quality \in DOMAIN QUALITY_NAMES :
       \E machine_key \in IdMachineKeys : \E num_qual \in 0..MaxIdModules :
       \E num_prod \in 0..MaxIdModules :
       \E b \in DOMAIN POSSIBLE_NUM_BEACONED_SPEED_MODULES :
           rid = [pc |-> "encode", recipe_key |-> recipe_key, quality |-> quality - 1,
                  crafting_machine_key |-> machine_key, num_qual_modules |-> num_qual,
                  num_prod_modules |-> num_prod,
                  num_beaconed_speed_modules |-> POSSIBLE_NUM_BEACONED_SPEED_MODULES[b],
                  recipe_id |-> << >>, recipe_info |-> << >>]

\* line 374
RidEncode ==
    /\ rid.pc = "encode"
    /\ rid' = [rid EXCEPT !.pc = "decode",
                          !.recipe_id = get_recipe_id(rid.recipe_key, rid.quality,
                                                      rid.crafting_machine_key,
                                                      rid.num_qual_modules, rid.num_prod_modules,
                                                      rid.num_beaconed_speed_modules)]
    /\ UNCHANGED << solverVars, qp, sh, chart >>

\* line 563
RidDecode ==
    /\ rid.pc = "decode"
    /\ rid' = [rid EXCEPT !.pc = "done", !.recipe_info = parse_recipe_id(rid.recipe_id)]
    /\ UNCHANGED << solverVars, qp, sh, chart >>

RidNext ==
    \/ RidEncode
    \/ RidDecode

SpecIds == RidInit /\ [][RidNext]_vars

\* C11: decoding the id that get_recipe_id built from (recipe key, quality, machine
\* key, three module counts) gives back the quality (by its name), the recipe key,
\* the machine key and the three counts, for every key of the catalogs, the
\* synthetic mining key and every quality tier 0..4.
C11_RecipeIdRoundTrip ==
    rid.pc = "done" =>
        /\ rid.recipe_info.recipe_quality = QualityName(rid.quality)
        /\ QualityLevel(rid.recipe_info.recipe_quality) = rid.quality
        /\ rid.recipe_info.recipe_key = rid.recipe_key
        /\ rid.recipe_info.machine = rid.crafting_machine_key
        /\ rid.recipe_info.num_qual_modules = rid.num_qual_modules
        /\ rid.recipe_info.num_prod_modules = rid.num_prod_modules
        /\ rid.recipe_info.num_beaconed_speed_modules = rid.num_beaconed_speed_modules

\* the mining key on a machine with a hyphenated key, at the top tier, with a
\* two-digit beacon count, has been encoded and decoded
C11_Witness ==
    /\ rid.pc = "done"
    /\ rid.recipe_key = get_resource_recipe_key(ResourceOre.key)
    /\ rid.crafting_machine_key = Furnace2.key
    /\ rid.quality = 4
    /\ rid.num_beaconed_speed_modules = 16
    /\ rid.recipe_info.num_beaconed_speed_modules = 16
    /\ rid.recipe_info.recipe_key = rid.recipe_key

(***************************************************************************)
(* An instance whose run() is called again after it returned               *)
(***************************************************************************)
\* calls of run() on one instance
MaxRuns == 2

\* the caller holds the instance after run() returned its report and calls
\* run() again: run() starts at line 442 with the instance as the last run left it
RunAgain ==
    /\ pc = "done"
    /\ runs < MaxRuns
    /\ pc' = "constructed"
    /\ UNCHANGED << config, data, err, items, recipes, crafting_machines, solver_items,
                    solver_recipes, solver_inputs, solver_byproducts, num_modules_var,
                    num_buildings_var, solver_costs, recipe_idx, machine_choice, solver,
                    status, solution, results, runs, qp, sh, rid, chart >>

NextReuse ==
    \/ Next
    \/ RunAgain

\* the requests whose instance is run again
InitReuse ==
    /\ \E sc \in ScenariosQuality \cup ScenariosResearch :
           config = sc.config /\ data = sc.data
    /\ pc = "init"
    /\ NoInstance
    /\ qp = QpIdle
    /\ sh = ShIdle
    /\ rid = RidIdle
    /\ chart = ChartIdle

SpecReuse == InitReuse /\ [][NextReuse]_vars

(***************************************************************************)
(* Two requests of the web handler: each builds a LinearSolver from the    *)
(* same catalog object (flask_app.py line 75) and runs it.  The item and   *)
(* recipe records of the catalog are the objects both instances hold in    *)
(* their dicts, so 'allows_quality' and 'qualities' written by one         *)
(* constructor are read by the other instance.  sh.items and sh.recipes    *)
(* are those records; what an instance owns is in sh.inst[i].              *)
(***************************************************************************)
Requests == { 1, 2 }

QualityPairs ==
    { pair \in QualityChoices \X QualityChoices : pair[1] # pair[2] }

SharedCatalogs ==
    { BaseData, ChainData,
      GameData(<< RecipeSmelt, RecipeCast >>, << Furnace2 >>, << >>, << >>) }

\* a LinearSolver not constructed yet, for the request with this configuration
NewInstance(cfg) ==
    [config |-> cfg, pc |-> "init", raised |-> "none", recipe_keys |-> << >>,
     mock_items |-> << >>, mock_recipes |-> << >>, crafting_machines |-> << >>,
     solver_items |-> << >>, solver_recipes |-> << >>, solver_inputs |-> << >>,
     solver_byproducts |-> << >>, num_modules_var |-> << >>, num_buildings_var |-> << >>,
     solver_costs |-> << >>, recipe_idx |-> 0, solver |-> NewEngine]

ShInit ==
    /\ config = BaseConfig
    /\ data = BaseData
    /\ pc = "idle"
    /\ NoInstance
    /\ qp = QpIdle
    /\ rid = RidIdle
    /\ chart = ChartIdle
    /\ \E catalog \in SharedCatalogs : \E pair \in QualityPairs : \E b \in BOOLEAN :
           sh = [pc |-> "shared",
                 catalog |-> catalog,
                 items |-> DictByKey(catalog.items),
                 recipes |-> DictByKey(catalog.recipes),
                 inst |-> [ i \in Requests |->
                     NewInstance([BaseConfig EXCEPT !.max_quality_unlocked = pair[i],
                                                    !.allow_byproducts = b]) ]]

\* self.max_quality_unlocked of instance i
ShMaxQuality(i) == QualityLevel(sh.inst[i].config.max_quality_unlocked)

\* self.items of instance i: the catalog's records, then the records run() added
ShItems(i) == sh.items \o sh.inst[i].mock_items

\* self.recipes of instance i: the catalog's records it kept, then the records
\* run() added
ShRecipes(i) ==
    SelectSeq(sh.recipes, LAMBDA e : e.k \in Range(sh.inst[i].recipe_keys))
        \o sh.inst[i].mock_recipes

\* LinearSolver(config, data) of request i, lines 216-258
ShConstruct(i) ==
    /\ sh.pc = "shared"
    /\ sh.inst[i].pc = "init"
    /\ LET items_ == ItemsWithQuality(sh.items, ShMaxQuality(i))
           norm == NormalizeRecipes([recipes |-> sh.recipes, raised |-> "none",
                                     recipe_allows_quality |-> FALSE],
                                    DictKeyList(sh.recipes), items_, ShMaxQuality(i))
       IN  sh' = [sh EXCEPT
                  !.items = items_,
                  !.recipes = [ r \in DOMAIN sh.recipes |->
                                  IF DictHas(norm.recipes, sh.recipes[r].k)
                                  THEN [k |-> sh.recipes[r].k,
                                        v |-> DictGet(norm.recipes, sh.recipes[r].k)]
                                  ELSE sh.recipes[r] ],
                  !.inst[i] = [@ EXCEPT
                      !.pc = IF norm.raised # "none" THEN "raised" ELSE "constructed",
                      !.raised = norm.raised,
                      !.recipe_keys = DictKeyList(norm.recipes),
                      !.crafting_machines = DictByKey(sh.catalog.crafting_machines)]]
    /\ UNCHANGED << solverVars, qp, rid, chart >>

\* run() of request i, lines 442-455
ShRunSetup(i) ==
    /\ sh.pc = "shared"
    /\ sh.inst[i].pc = "constructed"
    /\ LET inst == sh.inst[i]
           raised == validate_productivity_research(inst.config.productivity_research,
                                                    ShRecipes(i))
           with_modules == NumVar(inst.solver, << "num", "-", "modules" >>)
           with_buildings == NumVar(with_modules, << "num", "-", "buildings" >>)
           catalog == SetupResources([items |-> ShItems(i), recipes |-> ShRecipes(i)],
                                     DictValues(DictByKey(sh.catalog.resources)))
       IN  sh' = [sh EXCEPT !.inst[i] =
                  IF raised # "none" THEN [inst EXCEPT !.pc = "raised", !.raised = raised]
                  ELSE [inst EXCEPT
                      !.solver = with_buildings,
                      !.num_modules_var = << [var |-> LastVar(with_modules), coef |-> 1] >>,
                      !.num_buildings_var = << [var |-> LastVar(with_buildings), coef |-> 1] >>,
                      !.mock_items = SubSeq(catalog.items, Len(sh.items) + 1, Len(catalog.items)),
                      !.mock_recipes = SubSeq(catalog.recipes,
                                              Len(catalog.recipes) - Len(sh.catalog.resources) + 1,
                                              Len(catalog.recipes)),
                      !.crafting_machines =
                          SetupMiningDrills(inst.crafting_machines,
                                            DictValues(DictByKey(sh.catalog.mining_drills))),
                      !.solver_items = SetupItems(inst.solver_items, ItemIds(catalog.items)),
                      !.recipe_idx = 1,
                      !.pc = IF catalog.recipes = << >> THEN "demands" ELSE "recipes"]]
    /\ UNCHANGED << solverVars, qp, rid, chart >>

\* one pass of the loop of run() lines 457-462 of request i
ShRunRecipe(i) ==
    /\ sh.pc = "shared"
    /\ sh.inst[i].pc = "recipes"
    /\ LET inst == sh.inst[i]
           st == ProcessRecipe(inst, inst.config, ShRecipes(i)[inst.recipe_idx].v,
                               DictValues(inst.crafting_machines), ShItems(i),
                               ShMaxQuality(i))
       IN  sh' = [sh EXCEPT !.inst[i] =
                  IF st.raised # "none" THEN [st EXCEPT !.pc = "raised"]
                  ELSE [st EXCEPT
                      !.recipe_idx = @ + 1,
                      !.pc = IF inst.recipe_idx = Len(ShRecipes(i))
                             THEN "demands" ELSE "recipes"]]
    /\ UNCHANGED << solverVars, qp, rid, chart >>

\* run() lines 464-526 of request i: inputs, outputs, byproducts, constraints and
\* objective; from there on run() works on what the instance owns
ShRunDemands(i) ==
    /\ sh.pc = "shared"
    /\ sh.inst[i].pc = "demands"
    /\ LET inst == sh.inst[i]
           with_inputs == AddInputs(inst, inst.config.inputs)
           with_outputs == AddOutputs(with_inputs, inst.config.outputs)
           with_byproducts ==
               IF inst.config.allow_byproducts
               THEN AddByproducts(with_outputs, ItemIds(ShItems(i)),
                                  { InputItemId(inst.config.inputs[k]) :
                                      k \in DOMAIN inst.config.inputs },
                                  { OutputItemId(inst.config.outputs[k]) :
                                      k \in DOMAIN inst.config.outputs })
               ELSE with_outputs
           costs == with_byproducts.solver_costs
                      \o ScaleExpr(with_byproducts.num_modules_var, inst.config.module_cost)
                      \o ScaleExpr(with_byproducts.num_buildings_var, inst.config.building_cost)
       IN  sh' = [sh EXCEPT !.inst[i] =
                  IF with_byproducts.raised # "none"
                  THEN [with_byproducts EXCEPT !.pc = "raised"]
                  ELSE [with_byproducts EXCEPT
                      !.solver_costs = costs,
                      !.solver = [@ EXCEPT
                          !.constraints = @ \o [ n \in DOMAIN with_byproducts.solver_items |->
                                                   BuildConstraint(with_byproducts.solver_items[n].v) ],
                          !.objective = costs],
                      !.pc = "solve"]]
    /\ UNCHANGED << solverVars, qp, rid, chart >>

ShNext ==
    \E i \in Requests :
        \/ ShConstruct(i)
        \/ ShRunSetup(i)
        \/ ShRunRecipe(i)
        \/ ShRunDemands(i)

SpecShared == ShInit /\ [][ShNext]_vars

(***************************************************************************)
(* Properties of one request (Spec)                                        *)
(***************************************************************************)
\* run() has reached or passed its call of the engine's Solve
AtOrAfterSolve == pc \in { "solve", "extract", "done" }

\* sum(amount * value of var) over the contributions of a node, the constant
\* contributions (var = NoVar) counted as they are
RECURSIVE SignedSum(_, _)
SignedSum(contributions, sol) ==
    IF contributions = << >> THEN 0
    ELSE (IF Head(contributions).var = NoVar THEN Head(contributions).amount
          ELSE Head(contributions).amount * sol[Head(contributions).var])
         + SignedSum(Tail(contributions), sol)

\* C1: when run() calls Solve, and from then on, the engine holds exactly one
\* equality constraint per (item, quality) node of solver_items, whose terms are
\* all the contributions registered for the node and nothing else: the recipe
\* variants' terms, each input-supply variable with coefficient +1, each output
\* demand as the constant -amount, each byproduct variable with coefficient -1.
\* No node gets a contribution its constraint lacks, and in every solved report
\* the signed sum of the contributions of every node is zero.
C1_OneConstraintPerNode ==
    AtOrAfterSolve =>
        /\ Len(solver.constraints) = Len(solver_items)
        /\ \A i \in DOMAIN solver_items :
               LET node == solver_items[i].v
                   constraint == solver.constraints[i]
               IN  /\ Len(constraint) = Len(node)
                   /\ \A j \in DOMAIN node :
                          /\ constraint[j].var = node[j].var
                          /\ constraint[j].coef = node[j].amount
        /\ \A k \in DOMAIN solver_inputs :
               [var |-> solver_inputs[k].v, amount |-> Scale]
                   \in Range(DictGet(solver_items, solver_inputs[k].k))
        /\ \A o \in DOMAIN config.outputs :
               [var |-> NoVar, amount |-> (-1) * config.outputs[o].amount]
                   \in Range(DictGet(solver_items, OutputItemId(config.outputs[o])))
        /\ \A b \in DOMAIN solver_byproducts :
               [var |-> solver_byproducts[b].v, amount |-> (-1) * Scale]
                   \in Range(DictGet(solver_items, solver_byproducts[b].k))
        /\ \A r \in DOMAIN solver_recipes :
               \E i \in DOMAIN solver_items :
                   \E j \in DOMAIN solver_items[i].v :
                       solver_items[i].v[j].var = solver_recipes[r].v
        /\ status = "OPTIMAL" =>
               \A i \in DOMAIN solver_items : SignedSum(solver_items[i].v, solution) = 0

\* a solved report of a problem with recipe variants, an input, an output demand
\* and byproducts, in which something is supplied
C1_Witness ==
    /\ pc = "done"
    /\ results.solved
    /\ solver_recipes # << >>
    /\ solver_inputs # << >>
    /\ solver_byproducts # << >>
    /\ config.outputs # << >>
    /\ \E v \in DOMAIN solution : solution[v] > 0

\* the configuration sets both lists of a pair
BothRecipeListsSet == config.allowed_recipes.given /\ config.disallowed_recipes.given

BothMachineListsSet ==
    config.allowed_crafting_machines.given /\ config.disallowed_crafting_machines.given

\* the loop of run() over the recipes has just finished a pass without an error:
\* the recipe of that pass
PassedRecipe == pc \in { "recipes", "inputs" } /\ recipe_idx > 1

LastRecipe == recipes[recipe_idx - 1].v

\* the allowed crafting machines that support the category of a recipe, as a set
Candidates(recipe_data) ==
    { c \in Range(DictValues(crafting_machines)) :
        /\ crafting_machine_is_allowed(config, c.key).value
        /\ recipe_data.category \in c.crafting_categories }

\* the candidates that reach the maximum of all three attributes at once
Maximisers(candidates) ==
    { c \in candidates :
        \A d \in candidates : /\ c.module_slots >= d.module_slots
                              /\ c.prod_bonus >= d.prod_bonus
                              /\ c.crafting_speed >= d.crafting_speed }

\* the ids in solver_recipes of the variants of the recipe recipe_key
VariantsOf(recipe_key) ==
    { id \in DictKeys(solver_recipes) : parse_recipe_id(id).recipe_key = recipe_key }

\* C6: if productivity_research has a key that is no recipe key of the catalog
\* the constructor normalized, run() raises the error of the validation, and it
\* does so with no variable and no constraint registered and no Solve made.
C6_ResearchKeyValidatedFirst ==
    (/\ runs > 0
     /\ \E i \in DOMAIN config.productivity_research :
            \A r \in DOMAIN recipes : recipes[r].k # config.productivity_research[i].k)
    => /\ pc = "raised"
       /\ err = "NoRecipeForResearch"
       /\ solver.vars = << >>
       /\ solver.constraints = << >>
       /\ solver.solves = 0
       /\ solver_items = << >>

\* run() has raised for a research key that follows a valid one and names no recipe
C6_Witness ==
    /\ pc = "raised"
    /\ err = "NoRecipeForResearch"
    /\ runs = 1
    /\ Len(config.productivity_research) = 2
    /\ DictHas(recipes, config.productivity_research[1].k)

\* C7 (as amended): for an allowed recipe with at least one allowed machine that
\* supports its category, get_best_crafting_machine returns a machine exactly when
\* one single candidate reaches the maximum of module slots, productivity bonus and
\* crafting speed at once, and it returns that candidate; it raises the
\* disambiguation error exactly when the number of such candidates is not one
\* (several, or none).  The outcome is decided by the set of candidates, so the
\* catalog order does not matter.
C7_UniqueMaximiserOrError ==
    /\ (PassedRecipe /\ machine_choice.returned /\ Candidates(LastRecipe) # { })
         => /\ Len(machine_choice.machine) = 1
            /\ Maximisers(Candidates(LastRecipe)) = { machine_choice.machine[1] }
    /\ (pc = "raised" /\ err = "Disambiguate")
         => /\ Candidates(recipes[recipe_idx].v) # { }
            /\ Cardinality(Maximisers(Candidates(recipes[recipe_idx].v))) # 1

\* the better of two candidates was returned, the weaker one listed last
C7_Witness ==
    /\ PassedRecipe
    /\ machine_choice.returned
    /\ Cardinality(Candidates(LastRecipe)) = 2
    /\ machine_choice.machine = << Furnace2 >>
    /\ DictValues(crafting_machines)[2] = Furnace0

\* C7 as the claim states it: a machine is returned whenever there is a candidate,
\* unless more than one candidate ties on all three attributes.
C7_ErrorOnlyOnTies ==
    (pc = "raised" /\ err = "Disambiguate")
        => \E c, d \in Candidates(recipes[recipe_idx].v) :
               /\ c # d
               /\ c.module_slots = d.module_slots
               /\ c.prod_bonus = d.prod_bonus
               /\ c.crafting_speed = d.crafting_speed

\* C8: a pass of the recipe loop over an allowed recipe whose category no allowed
\* crafting machine supports raises nothing and registers nothing (no variable, no
\* variant, no contribution to any node), and the loop goes on with the next
\* recipe or, after the last one, with the inputs.
C8_NoMachineRecipeSkipped ==
    [][(/\ pc = "recipes"
        /\ ~BothRecipeListsSet
        /\ ~BothMachineListsSet
        /\ recipe_is_allowed(config, recipes[recipe_idx].k).value
        /\ Candidates(recipes[recipe_idx].v) = { })
       => /\ pc' = (IF recipe_idx = Len(recipes) THEN "inputs" ELSE "recipes")
          /\ recipe_idx' = recipe_idx + 1
          /\ err' = "none"
          /\ solver' = solver
          /\ solver_items' = solver_items
          /\ solver_recipes' = solver_recipes
          /\ num_modules_var' = num_modules_var
          /\ num_buildings_var' = num_buildings_var]_vars

\* a recipe without a machine was passed over, another recipe of the catalog got
\* its variants and the problem was solved
C8_Witness ==
    /\ pc = "done"
    /\ results.solved
    /\ \E r \in DOMAIN recipes :
           /\ Candidates(recipes[r].v) = { }
           /\ VariantsOf(recipes[r].k) = { }
    /\ solver_recipes # << >>

\* the quality tiers a recipe can be made at: every unlocked tier if some
\* ingredient allows quality, the normal tier alone otherwise
EligibleTiers(recipe_data) ==
    IF \E i \in DOMAIN recipe_data.ingredients :
           DictGet(items, recipe_data.ingredients[i].name).allows_quality
    THEN 0..max_quality_unlocked
    ELSE { 0 }

\* the ids of {eligible tiers} x {0..module slots} x {beacon candidates} for a
\* recipe and a machine; the slots the quality modules leave free hold
\* productivity modules when the recipe allows productivity
ExpectedVariantIds(recipe_data, machine) ==
    { get_recipe_id(recipe_data.key, q, machine.key, n,
                    IF recipe_data.allow_productivity THEN machine.module_slots - n ELSE 0, b) :
        q \in EligibleTiers(recipe_data), n \in 0..machine.module_slots,
        b \in Range(possible_num_beaconed_speed_modules(config)) }

\* C10: the variants registered for a recipe and the machine selected for it are
\* exactly one per element of {eligible quality tiers} x {0..module slots} x
\* {beacon candidates}: their ids are the ids of that product, the ids are
\* pairwise distinct (as many ids as elements, each naming one engine variable),
\* and with a machine without module slots, no beacon search and no productivity
\* research the variants are one per eligible tier with all module counts 0.
C10_VariantsAreTheProduct ==
    (PassedRecipe /\ machine_choice.returned /\ machine_choice.machine # << >>)
    => LET machine == machine_choice.machine[1]
           expected == ExpectedVariantIds(LastRecipe, machine)
           beacons == possible_num_beaconed_speed_modules(config)
       IN  /\ VariantsOf(LastRecipe.key) = expected
           /\ Cardinality(expected)
                = Cardinality(EligibleTiers(LastRecipe)) * (machine.module_slots + 1)
                    * Len(beacons)
           /\ \A id \in expected :
                  Cardinality({ v \in DOMAIN solver.vars : solver.vars[v] = id }) = 1
           /\ (/\ machine.module_slots = 0
               /\ ~config.check_speed_modules
               /\ ~DictHas(config.productivity_research, LastRecipe.key))
              => /\ Cardinality(VariantsOf(LastRecipe.key))
                      = Cardinality(EligibleTiers(LastRecipe))
                 /\ \A id \in VariantsOf(LastRecipe.key) :
                        /\ parse_recipe_id(id).num_qual_modules = 0
                        /\ parse_recipe_id(id).num_prod_modules = 0
                        /\ parse_recipe_id(id).num_beaconed_speed_modules = 0

\* a recipe got its variants on a machine with two module slots, with more than
\* one eligible tier and the beacon search on
C10_Witness ==
    /\ PassedRecipe
    /\ machine_choice.returned
    /\ machine_choice.machine # << >>
    /\ machine_choice.machine[1].module_slots = 2
    /\ config.check_speed_modules
    /\ Cardinality(EligibleTiers(LastRecipe)) > 1
    /\ Cardinality(VariantsOf(LastRecipe.key))
         = Cardinality(EligibleTiers(LastRecipe)) * 3 * BEACON_RANGE

\* C5: with both lists of recipes set, or both lists of crafting machines set,
\* run() ends with the configuration error, for every catalog: it never gets past
\* the loop over the recipes, and Solve is never called.
C5_BothListsAlwaysRejected ==
    (BothRecipeListsSet \/ BothMachineListsSet)
        => /\ pc \notin { "inputs", "outputs", "byproducts", "constraints", "solve",
                          "extract", "done" }
           /\ solver.solves = 0

\* C9: the constructor never raises, and the recipes it keeps are those of the
\* catalog all of whose ingredients are items of the catalog.
C9_NonsenseRecipesDropped ==
    /\ ~(pc = "raised" /\ runs = 0)
    /\ pc = "constructed"
         => DictKeys(recipes)
              = { data.recipes[r].key : r \in
                    { r \in DOMAIN data.recipes :
                        \A i \in DOMAIN data.recipes[r].ingredients :
                            DictHas(items, data.recipes[r].ingredients[i].name) } }

\* C4: an instance has the engine solve at most once: run() called again after a
\* report was returned makes no second Solve.
C4_SolvesOnce == solver.solves <= 1

(***************************************************************************)
(* Properties of two requests on one catalog (SpecShared)                  *)
(***************************************************************************)
\* the (item, quality) nodes the configuration of request i asks for: every tier
\* up to its own max_quality_unlocked for an item that is no fluid, the normal
\* tier for a fluid and for the resource items run() adds
OwnNodeIds(i) ==
    { get_item_id(sh.catalog.items[n].key, 0) : n \in DOMAIN sh.catalog.items }
    \cup { get_item_id(sh.catalog.items[n].key, q) :
             n \in { m \in DOMAIN sh.catalog.items : sh.catalog.items[m].type # "fluid" },
             q \in 1..ShMaxQuality(i) }
    \cup { get_item_id(get_resource_item_key(sh.catalog.resources[n].key), 0) :
             n \in DOMAIN sh.catalog.resources }

\* C3: under every interleaving of the constructors and run() steps of two
\* instances built from one catalog object with different max_quality_unlocked,
\* no instance fails, the item nodes an instance registers are those of its own
\* configuration, and every variant it registers is of a tier its own
\* configuration unlocks.
C3_InstancesIndependent ==
    sh.pc = "shared" =>
        \A i \in Requests :
            /\ sh.inst[i].pc # "raised"
            /\ sh.inst[i].pc \in { "recipes", "demands", "solve" }
                 => DictKeys(sh.inst[i].solver_items) = OwnNodeIds(i)
            /\ \A id \in DictKeys(sh.inst[i].solver_recipes) :
                   QualityLevel(parse_recipe_id(id).recipe_quality) <= ShMaxQuality(i)

(***************************************************************************)
(* The totals of the report                                                *)
(***************************************************************************)
\* solved value of every registered variant, in the order of solver_recipes
VariantValues == [ i \in DOMAIN solver_recipes |-> solution[solver_recipes[i].v] ]

\* (quality + productivity + beaconed-speed modules) x solved value per variant
VariantModules ==
    [ i \in DOMAIN solver_recipes |->
        LET recipe_info == parse_recipe_id(solver_recipes[i].k)
        IN  (recipe_info.num_qual_modules + recipe_info.num_prod_modules
               + recipe_info.num_beaconed_speed_modules) * solution[solver_recipes[i].v] ]

\* C12: in every solved report num_buildings is the sum of the solved values of
\* the variants and num_modules the sum of their module counts times their solved
\* values, for every optimal solution and every module_cost and building_cost,
\* 0 included.
C12_TotalsAreVariantSums ==
    (pc = "done" /\ results.solved) =>
        /\ results.num_buildings = SeqSum(VariantValues)
        /\ results.num_modules = SeqSum(VariantModules)

\* what does hold: with a positive building_cost the reported num_buildings is the
\* sum over the variants, and likewise num_modules with a positive module_cost
C12_TotalsWhenCosted ==
    (pc = "done" /\ results.solved) =>
        /\ config.building_cost > 0 => results.num_buildings = SeqSum(VariantValues)
        /\ config.module_cost > 0 => results.num_modules = SeqSum(VariantModules)

(***************************************************************************)
(* The report                                                              *)
(***************************************************************************)
ReportFields ==
    { "solved", "cost", "num_buildings", "num_modules", "input_resources", "input_items",
      "mining_recipes", "crafting_recipes" }

\* C13: the report has solved = true exactly when Solve returned OPTIMAL; for
\* every other status it is {solved: false} and nothing else; a solved report
\* holds cost, num_buildings, num_modules, input_resources, input_items,
\* mining_recipes and crafting_recipes, and byproducts exactly when
\* allow_byproducts is set.
C13_ReportShape ==
    pc = "done" =>
        /\ results.solved <=> status = "OPTIMAL"
        /\ status # "OPTIMAL" => results = [solved |-> FALSE]
        /\ status = "OPTIMAL" =>
               DOMAIN results =
                   ReportFields \cup (IF config.allow_byproducts THEN { "byproducts" } ELSE { })

\* a solved report with byproducts has been returned
C13_Witness ==
    /\ pc = "done"
    /\ status = "OPTIMAL"
    /\ config.allow_byproducts
    /\ "byproducts" \in DOMAIN results
    /\ results.crafting_recipes # << >>

(***************************************************************************)
(* The one-recipe scenario                                                 *)
(***************************************************************************)
\* one recipe (1 ore -> 1 plate, energy 1), one machine of speed 1 without module
\* slots, one tier, no research, no costs, ore as input, 2 plate per second asked
OneRecipeScenario ==
    /\ data = BaseData
    /\ config = [BaseConfig EXCEPT !.building_cost = 0, !.module_cost = 0,
                                   !.inputs = << Input(<< "ore" >>, "normal", 1, FALSE) >>,
                                   !.outputs = << Output(<< "plate" >>, "normal", 2 * Scale) >>]

\* the single crafting entry the scenario expects: 2 buildings, 2 ore in, 2 plate out
OneRecipeEntries ==
    << [k |-> RecipeSmelt.key,
        v |-> << [k |-> "normal",
                  v |-> << [num_buildings |-> 2, machine |-> Furnace0.key,
                            num_prod_modules |-> 0, num_qual_modules |-> 0,
                            num_beaconed_speed_modules |-> 0,
                            ingredients |-> << [k |-> ItemOre.key,
                                                v |-> << [k |-> "normal", v |-> 2 * Scale] >>] >>,
                            products |-> << [k |-> ItemPlate.key,
                                             v |-> << [k |-> "normal", v |-> 2 * Scale] >>] >>]
                        >>] >>] >>

C14_OneRecipeEntryOnly ==
    (pc = "done" /\ OneRecipeScenario /\ status \notin EngineFailures) =>
        /\ results.solved
        /\ results.crafting_recipes = OneRecipeEntries
        /\ results.mining_recipes = << >>
        /\ results.num_buildings = 2 + solution[2]

(***************************************************************************)
(* Co-products without disposal                                            *)
(***************************************************************************)
Names(list) == { list[i].name : i \in DOMAIN list }

\* the item keys the configuration declares as input (as run() lines 468-471 map
\* them) or as output
DeclaredInputKeys ==
    { IF config.inputs[i].resource THEN get_resource_item_key(config.inputs[i].key)
      ELSE config.inputs[i].key : i \in DOMAIN config.inputs }

DeclaredOutputKeys == { config.outputs[i].key : i \in DOMAIN config.outputs }

\* the recipes of the instance with item_key among their results
Producers(item_key) == { r \in Range(DictValues(recipes)) : item_key \in Names(r.results) }

ConsumedKeys == UNION { Names(r.ingredients) : r \in Range(DictValues(recipes)) }

\* the recipe makes, in a non-zero amount, an item that is neither a declared
\* input nor a declared output nor an ingredient of any recipe
HasStrandedCoProduct(r) ==
    \E i \in DOMAIN r.results :
        /\ r.results[i].name \notin DeclaredInputKeys \cup DeclaredOutputKeys \cup ConsumedKeys
        /\ calculate_expected_amount(r.results[i], 0) > 0

\* a demanded item that is no input, some recipe with registered variants makes
\* it, and every recipe that makes it also makes a stranded co-product
OnlyWithCoProduct ==
    \E o \in DOMAIN config.outputs :
        /\ config.outputs[o].amount > 0
        /\ config.outputs[o].key \notin DeclaredInputKeys
        /\ \E r \in Producers(config.outputs[o].key) : VariantsOf(r.key) # { }
        /\ \A r \in Producers(config.outputs[o].key) : HasStrandedCoProduct(r)

\* C15: with allow_byproducts false, when the only recipes producing a demanded
\* output also produce a co-product that is neither input nor output nor consumed
\* by any recipe, the report is solved: false.
C15_CoProductInfeasible ==
    (pc = "done" /\ ~config.allow_byproducts /\ OnlyWithCoProduct) => ~results.solved

\* such a model (2 plate per second from water, slag left over: two buildings
\* would do with disposal) has been given to the engine, found infeasible and
\* reported
C15_Witness ==
    /\ pc = "done"
    /\ ~config.allow_byproducts
    /\ OnlyWithCoProduct
    /\ status = "INFEASIBLE"
    /\ results = [solved |-> FALSE]
    /\ VariantsOf(RecipeRefine.key) # { }
    /\ config.inputs = << Input(<< "water" >>, "normal", 1, FALSE) >>
    /\ config.outputs = << Output(<< "plate" >>, "normal", 2 * Scale) >>

(***************************************************************************)
(* Where the report lists the variants, the inputs and the byproducts      *)
(***************************************************************************)
IsMiningKey(recipe_key) == EndsWith(recipe_key, << "--", "mining" >>)

\* positions of the entries of results.mining_recipes: << key index, entry index >>
MiningPositions ==
    UNION { { << m, e >> : e \in DOMAIN results.mining_recipes[m].v } :
              m \in DOMAIN results.mining_recipes }

\* positions of the entries of results.crafting_recipes:
\* << key index, quality index, entry index >>
CraftingPositions ==
    UNION { UNION { { << r, q, e >> : e \in DOMAIN results.crafting_recipes[r].v[q].v } :
                      q \in DOMAIN results.crafting_recipes[r].v } :
              r \in DOMAIN results.crafting_recipes }

MiningEntry(pos) == results.mining_recipes[pos[1]].v[pos[2]]

CraftingEntry(pos) == results.crafting_recipes[pos[1]].v[pos[2]].v[pos[3]]

SameLoadout(entry, recipe_info) ==
    /\ entry.machine = recipe_info.machine
    /\ entry.num_qual_modules = recipe_info.num_qual_modules
    /\ entry.num_prod_modules = recipe_info.num_prod_modules
    /\ entry.num_beaconed_speed_modules = recipe_info.num_beaconed_speed_modules

\* the entries listed for the variant recipe_id under mining_recipes[resource key]
MiningEntriesOf(recipe_id) ==
    LET recipe_info == parse_recipe_id(recipe_id)
    IN  { pos \in MiningPositions :
            /\ IsMiningKey(recipe_info.recipe_key)
            /\ results.mining_recipes[pos[1]].k = KeyStem(recipe_info.recipe_key)
            /\ SameLoadout(MiningEntry(pos), recipe_info) }

\* the entries listed for it under crafting_recipes[recipe key][quality name]
CraftingEntriesOf(recipe_id) ==
    LET recipe_info == parse_recipe_id(recipe_id)
    IN  { pos \in CraftingPositions :
            /\ results.crafting_recipes[pos[1]].k = recipe_info.recipe_key
            /\ results.crafting_recipes[pos[1]].v[pos[2]].k = recipe_info.recipe_quality
            /\ SameLoadout(CraftingEntry(pos), recipe_info) }

\* the value the report lists for the input or byproduct node item_id, if any
ListedAmount(by_item, item_id) ==
    LET item_info == parse_item_id(item_id)
    IN  IF DictHas(by_item, item_info.item_key)
           /\ DictHas(DictGet(by_item, item_info.item_key), item_info.item_quality)
        THEN << DictGet(DictGet(by_item, item_info.item_key), item_info.item_quality) >>
        ELSE << >>

ListedInput(item_id) ==
    LET item_info == parse_item_id(item_id)
    IN  IF EndsWith(item_info.item_key, << "--", "resource" >>)
        THEN IF DictHas(results.input_resources, KeyStem(item_info.item_key))
             THEN << DictGet(results.input_resources, KeyStem(item_info.item_key)) >>
             ELSE << >>
        ELSE ListedAmount(results.input_items, item_id)

\* number of (item, quality) values in a report section item key -> quality -> value
CountListed(by_item) == SeqSum([ i \in DOMAIN by_item |-> Len(by_item[i].v) ])

Positive(by_id) == { i \in DOMAIN by_id : solution[by_id[i].v] > 0 }

RECURSIVE SignedTotal(_, _, _)
SignedTotal(contributions, var, sgn) ==
    IF contributions = << >> THEN 0
    ELSE (IF Head(contributions).var = var /\ Head(contributions).amount * sgn > 0
          THEN Head(contributions).amount ELSE 0)
           + SignedTotal(Tail(contributions), var, sgn)

\* the variable of the variant a crafting entry reports
CraftingVar(pos) ==
    LET entry == CraftingEntry(pos)
    IN  DictGet(solver_recipes,
                get_recipe_id(results.crafting_recipes[pos[1]].k,
                              QualityLevel(results.crafting_recipes[pos[1]].v[pos[2]].k),
                              entry.machine, entry.num_qual_modules, entry.num_prod_modules,
                              entry.num_beaconed_speed_modules))

\* what a listing by item key and quality name must hold for one node: the given
\* total when it is not 0, nothing otherwise
ListsTotal(by_item, item_id, total) ==
    ListedAmount(by_item, item_id) = IF total # 0 THEN << total >> ELSE << >>

\* the recipe of the instance lists no item twice among its ingredients, nor among
\* its results
ListsItemsOnce(recipe_data) ==
    /\ \A i, j \in DOMAIN recipe_data.ingredients :
           recipe_data.ingredients[i].name = recipe_data.ingredients[j].name => i = j
    /\ \A i, j \in DOMAIN recipe_data.results :
           recipe_data.results[i].name = recipe_data.results[j].name => i = j

AmountsAreTotals(pos) ==
    \A n \in DOMAIN solver_items :
        /\ ListsTotal(CraftingEntry(pos).ingredients, solver_items[n].k,
                      (-1) * SignedTotal(solver_items[n].v, CraftingVar(pos), -1)
                        * CraftingEntry(pos).num_buildings)
        /\ ListsTotal(CraftingEntry(pos).products, solver_items[n].k,
                      SignedTotal(solver_items[n].v, CraftingVar(pos), 1)
                        * CraftingEntry(pos).num_buildings)

\* C17: for every reported crafting variant and every (item, quality) node, the
\* ingredient amount listed is the solved building count times the total of the
\* variant's negative contributions to the node and the product amount the count
\* times the total of its positive contributions, also when the recipe lists an
\* item more than once; a node with total 0 is not listed.
C17_AmountsAreTotals ==
    (pc = "done" /\ results.solved) => \A pos \in CraftingPositions : AmountsAreTotals(pos)

\* what does hold: the same for the variants of recipes that list no item twice
C17_AmountsWhenListedOnce ==
    (pc = "done" /\ results.solved) =>
        \A pos \in CraftingPositions :
            ListsItemsOnce(DictGet(recipes, results.crafting_recipes[pos[1]].k))
              => AmountsAreTotals(pos)

(***************************************************************************)
(* resource_consumption of the reported mining variants                    *)
(***************************************************************************)
\* the variable of the variant a mining entry reports (a mining recipe has the
\* single tier 0)
MiningVar(pos) ==
    LET entry == MiningEntry(pos)
    IN  DictGet(solver_recipes,
                get_recipe_id(get_resource_recipe_key(results.mining_recipes[pos[1]].k), 0,
                              entry.machine, entry.num_qual_modules, entry.num_prod_modules,
                              entry.num_beaconed_speed_modules))

\* building count times the variant's consumption rate of '<resource>--resource'
ResourceConsumed(pos) ==
    LET node == get_item_id(get_resource_item_key(results.mining_recipes[pos[1]].k), 0)
    IN  (-1) * SignedTotal(DictGet(solver_items, node), MiningVar(pos), -1)
          * MiningEntry(pos).num_buildings

\* C18: for every reported mining variant, resource_consumption is the solved
\* building count times the variant's per-building consumption rate of the
\* '<resource>--resource' item, whatever the outputs of the configuration are;
\* in particular the report is returned whatever they are.
C18_ResourceConsumption ==
    /\ err # "UnboundLocalError"
    /\ (pc = "done" /\ results.solved) =>
           \A pos \in MiningPositions :
               MiningEntry(pos).resource_consumption = << ResourceConsumed(pos) >>

\* what the code reports instead: minus the amount of the last configured output
C18_ReportsLastOutputAmount ==
    (pc = "done" /\ results.solved) =>
        \A pos \in MiningPositions :
            MiningEntry(pos).resource_consumption
              = << (-1) * config.outputs[Len(config.outputs)].amount >>

(***************************************************************************)
(* The items the processed recipes refer to                                *)
(***************************************************************************)
\* run() stopped inside the loop over the recipes (lines 457-462)
RaisedInRecipeLoop == pc = "raised" /\ runs > 0 /\ recipe_idx \in DOMAIN recipes

\* C19: once the constructor has normalized the recipes and run() has added the
\* recipes of the resources, every recipe the loop over the recipes processes
\* names only items of the item catalog, as ingredients and as results, and
\* registering its variants never fails on an unknown item or a missing node.
C19_ProcessedRecipesKnowItems ==
    /\ pc = "recipes" =>
           \A r \in DOMAIN recipes :
               Names(recipes[r].v.ingredients) \cup Names(recipes[r].v.results)
                 \subseteq DictKeys(items)
    /\ ~(RaisedInRecipeLoop /\ err = "KeyError")

\* what does hold: the ingredients of the recipes the constructor kept are items
\* of the catalog
C19_IngredientsKnown ==
    pc = "constructed" =>
        \A r \in DOMAIN recipes : Names(recipes[r].v.ingredients) \subseteq DictKeys(items)

(***************************************************************************)
(* The module counts of the registered variants                            *)
(***************************************************************************)
\* C20: every registered variant has (machine module slots - quality modules)
\* productivity modules when its recipe allows productivity and 0 otherwise, never
\* more quality plus productivity modules than the machine has slots, and a
\* beaconed-speed-module count in 0..16 when check_speed_modules is set and of 0
\* when it is not.
C20_ModuleCountsFitTheMachine ==
    \A id \in DictKeys(solver_recipes) :
        LET recipe_info == parse_recipe_id(id)
            slots == DictGet(crafting_machines, recipe_info.machine).module_slots
            allow_productivity == DictGet(recipes, recipe_info.recipe_key).allow_productivity
        IN  /\ recipe_info.num_prod_modules
                 = IF allow_productivity THEN slots - recipe_info.num_qual_modules ELSE 0
            /\ recipe_info.num_qual_modules + recipe_info.num_prod_modules <= slots
            /\ recipe_info.num_qual_modules \in 0..slots
            /\ recipe_info.num_prod_modules \in 0..slots
            /\ config.check_speed_modules
                 => recipe_info.num_beaconed_speed_modules \in 0..16
            /\ ~config.check_speed_modules => recipe_info.num_beaconed_speed_modules = 0

\* with the beacon search on, a recipe that allows productivity has a variant with
\* one quality module, one productivity module and 16 beaconed speed modules on a
\* machine with two slots; a recipe that does not allow it has one with a quality
\* module and no productivity module
C20_Witness ==
    /\ config.check_speed_modules
    /\ \E id \in DictKeys(solver_recipes) :
           /\ DictGet(recipes, parse_recipe_id(id).recipe_key).allow_productivity
           /\ DictGet(crafting_machines, parse_recipe_id(id).machine).module_slots = 2
           /\ parse_recipe_id(id).num_qual_modules = 1
           /\ parse_recipe_id(id).num_prod_modules = 1
           /\ parse_recipe_id(id).num_beaconed_speed_modules = 16
    /\ \E id \in DictKeys(solver_recipes) :
           /\ ~DictGet(recipes, parse_recipe_id(id).recipe_key).allow_productivity
           /\ parse_recipe_id(id).num_qual_modules > 0
           /\ parse_recipe_id(id).num_prod_modules = 0

(***************************************************************************)
(* The tiers a variant consumes and produces at                            *)
(***************************************************************************)
\* the contributions of the variable var to the node item_id
TermsAt(item_id, var) ==
    IF DictHas(solver_items, item_id)
    THEN SelectSeq(DictGet(solver_items, item_id), LAMBDA term : term.var = var)
    ELSE << >>

\* how many entries of an ingredient or result list name the item
Occurrences(list, item_key) == Cardinality({ i \in DOMAIN list : list[i].name = item_key })

\* the tuple of the loop of setup_recipe_var that made the variant
TupleOf(recipe_info) ==
    [recipe_quality |-> QualityLevel(recipe_info.recipe_quality),
     num_qual_modules |-> recipe_info.num_qual_modules,
     num_beaconed_speed_modules |-> recipe_info.num_beaconed_speed_modules]

\* the variant id of the recipe recipe_data: where its terms are and where not
TiersOfVariant(recipe_data, id) ==
    LET recipe_info == parse_recipe_id(id)
        t == QualityLevel(recipe_info.recipe_quality)
        var == DictGet(solver_recipes, id)
        p == VariantParams(config, recipe_data, DictGet(crafting_machines, recipe_info.machine),
                           TupleOf(recipe_info))
    IN  /\ \A n \in DOMAIN solver_items :
               LET node == parse_item_id(solver_items[n].k)
                   item_data == DictGet(items, node.item_key)
                   e == QualityLevel(node.item_quality)
                   terms == TermsAt(solver_items[n].k, var)
                   consumed_here == e = (IF item_data.allows_quality THEN t ELSE 0)
                   produced_here == IF item_data.allows_quality
                                    THEN t <= e /\ e <= max_quality_unlocked
                                    ELSE e = 0
               IN  /\ Len(terms)
                        = (IF consumed_here
                           THEN Occurrences(recipe_data.ingredients, node.item_key) ELSE 0)
                          + (IF produced_here
                             THEN Occurrences(recipe_data.results, node.item_key) ELSE 0)
                   /\ terms # << >> => ~(item_data.allows_quality /\ e < t)
        /\ \A r \in DOMAIN recipe_data.results :
               ~DictGet(items, recipe_data.results[r].name).allows_quality =>
                   \E j \in DOMAIN TermsAt(get_item_id(recipe_data.results[r].name, 0), var) :
                       TermsAt(get_item_id(recipe_data.results[r].name, 0), var)[j].amount
                         = (calculate_expected_amount(recipe_data.results[r], p.prod_bonus)
                              * p.speed_factor) \div recipe_data.energy_required

\* C21: a variant at recipe tier t consumes every quality-eligible ingredient at
\* tier t and every other ingredient (fluids) at tier 0; it contributes every
\* quality-eligible result to the tiers t..max_quality_unlocked and to no other,
\* and every fluid result to tier 0 alone, with the full rate (probability factor
\* 1); it has no term at a tier below its own.
C21_TiersOfConsumptionAndProduction ==
    (PassedRecipe /\ machine_choice.returned /\ machine_choice.machine # << >>)
        => \A id \in VariantsOf(LastRecipe.key) : TiersOfVariant(LastRecipe, id)

\* a recipe with a quality ingredient, a fluid ingredient, a quality result and a
\* fluid result got a variant above the normal tier, below the highest unlocked one
C21_Witness ==
    /\ PassedRecipe
    /\ LastRecipe.key = RecipeLeach.key
    /\ max_quality_unlocked = 2
    /\ \E id \in VariantsOf(LastRecipe.key) :
           /\ parse_recipe_id(id).recipe_quality = "uncommon"
           /\ parse_recipe_id(id).num_qual_modules = 1
           /\ TermsAt(get_item_id(<< "plate" >>, 2), DictGet(solver_recipes, id)) # << >>
           /\ TermsAt(get_item_id(<< "water" >>, 0), DictGet(solver_recipes, id)) # << >>

(***************************************************************************)
(* The clamps of setup_recipe_var                                          *)
(***************************************************************************)
\* speed_factor of line 370 for a given module speed factor
SpeedFactorWith(machine, module_speed_factor) ==
    (((machine.crafting_speed * (Scale + building_speed_bonus(config))) \div Scale)
        * module_speed_factor) \div Scale

\* the values the variant id of recipe_data is registered with, against the
\* unclamped formulas of lines 362, 365-368 and 407
ClampsOfVariant(recipe_data, id) ==
    LET recipe_info == parse_recipe_id(id)
        machine == DictGet(crafting_machines, recipe_info.machine)
        var == DictGet(solver_recipes, id)
        p == VariantParams(config, recipe_data, machine, TupleOf(recipe_info))
        speed_used == IF p.module_speed_factor_raw < MINIMUM_MODULE_SPEED_FACTOR
                      THEN MINIMUM_MODULE_SPEED_FACTOR ELSE p.module_speed_factor_raw
        prod_used == IF p.prod_bonus_raw > MAXIMUM_PRODUCTIVITY_BONUS
                     THEN MAXIMUM_PRODUCTIVITY_BONUS ELSE p.prod_bonus_raw
        percent_used == IF p.quality_percent_raw < 0 THEN 0 ELSE p.quality_percent_raw
        speed_factor == SpeedFactorWith(machine, speed_used)
    IN  /\ p.module_speed_factor >= MINIMUM_MODULE_SPEED_FACTOR
        /\ p.prod_bonus <= MAXIMUM_PRODUCTIVITY_BONUS
        /\ p.quality_percent >= 0
        /\ p.module_speed_factor = speed_used
        /\ p.prod_bonus = prod_used
        /\ p.quality_percent = percent_used
        \* the terms of the variant carry these values
        /\ \A g \in DOMAIN recipe_data.ingredients :
               LET ingredient == recipe_data.ingredients[g]
                   tier == IF DictGet(items, ingredient.name).allows_quality
                           THEN p.recipe_quality ELSE 0
                   terms == TermsAt(get_item_id(ingredient.name, tier), var)
               IN  \E j \in DOMAIN terms :
                       terms[j].amount
                         = (-1) * ((ingredient.amount * speed_factor)
                                     \div recipe_data.energy_required)
        /\ \A r \in DOMAIN recipe_data.results :
               LET result_data == recipe_data.results[r]
                   rate == (calculate_expected_amount(result_data, prod_used) * speed_factor)
                             \div recipe_data.energy_required
               IN  IF DictGet(items, result_data.name).allows_quality
                   THEN \A e \in p.recipe_quality..max_quality_unlocked :
                            LET terms == TermsAt(get_item_id(result_data.name, e), var)
                                factor == calculate_quality_probability_factor(
                                              p.recipe_quality, e, max_quality_unlocked,
                                              percent_used)
                            IN  \E j \in DOMAIN terms :
                                    terms[j].amount = TimesProbability(rate, factor.value)
                   ELSE \E j \in DOMAIN TermsAt(get_item_id(result_data.name, 0), var) :
                            TermsAt(get_item_id(result_data.name, 0), var)[j].amount = rate

\* C22: every variant is registered with a module speed factor of at least
\* MINIMUM_MODULE_SPEED_FACTOR, a productivity bonus of at most
\* MAXIMUM_PRODUCTIVITY_BONUS and a quality percent of at least 0, each equal to
\* the unclamped formula when that lies on the allowed side of the bound, and the
\* variant's ingredient and result terms are computed from these values.
C22_ClampedValuesUsed ==
    (PassedRecipe /\ machine_choice.returned /\ machine_choice.machine # << >>)
        => \A id \in VariantsOf(LastRecipe.key) : ClampsOfVariant(LastRecipe, id)

\* one recipe got a variant whose speed formula is below the floor and whose
\* productivity formula is above the cap, a variant whose quality formula is
\* negative, and a variant with no clamp of speed or quality active
C22_Witness ==
    /\ PassedRecipe
    /\ machine_choice.returned
    /\ machine_choice.machine = << Assembler6 >>
    /\ max_quality_unlocked = 1
    /\ \E id \in VariantsOf(LastRecipe.key) :
           LET p == VariantParams(config, LastRecipe, Assembler6, TupleOf(parse_recipe_id(id)))
           IN  /\ p.module_speed_factor_raw < MINIMUM_MODULE_SPEED_FACTOR
               /\ p.prod_bonus_raw > MAXIMUM_PRODUCTIVITY_BONUS
    /\ \E id \in VariantsOf(LastRecipe.key) :
           VariantParams(config, LastRecipe, Assembler6,
                         TupleOf(parse_recipe_id(id))).quality_percent_raw < 0
    /\ \E id \in VariantsOf(LastRecipe.key) :
           LET p == VariantParams(config, LastRecipe, Assembler6, TupleOf(parse_recipe_id(id)))
           IN  /\ p.module_speed_factor_raw > MINIMUM_MODULE_SPEED_FACTOR
               /\ p.quality_percent_raw > 0

(***************************************************************************)
(* The disposal variables                                                  *)
(***************************************************************************)
\* the engine variables named 'byproduct__<item id>'
DisposalVarsOf(item_id) == { v \in DOMAIN solver.vars : solver.vars[v] = get_byproduct_id(item_id) }

DisposalVars == { v \in DOMAIN solver.vars : solver.vars[v][1] = "byproduct" }

\* the variables of the declared inputs
SupplyVars == { v \in DOMAIN solver.vars : solver.vars[v][1] = "input" }

\* the nodes that hold a contribution of the variable
NodesOf(var) ==
    { n \in DOMAIN solver_items : \E j \in DOMAIN solver_items[n].v : solver_items[n].v[j].var = var }

\* run() is at or before its test of allow_byproducts (line 499)
BeforeDisposal ==
    pc \in { "init", "constructed", "setup", "recipes", "inputs", "outputs", "byproducts" }

\* run() has passed lines 499-513
AfterDisposal == pc \in { "constraints", "solve", "extract", "done" }

\* C24: with allow_byproducts set, every node that is neither a declared input nor
\* a declared output has exactly one disposal variable, in solver_byproducts under
\* the node's id, with the single contribution -1 to that node, none to any other
\* node and no term in the costs; a declared input or output node has none.
\* Without allow_byproducts there is no disposal variable at all.  No disposal
\* variable exists before all inputs and outputs are registered.
C24_DisposalVariables ==
    /\ BeforeDisposal => solver_byproducts = << >> /\ DisposalVars = { }
    /\ (AfterDisposal /\ ~config.allow_byproducts) =>
           solver_byproducts = << >> /\ DisposalVars = { }
    /\ (AfterDisposal /\ config.allow_byproducts) =>
           /\ \A n \in DOMAIN solver_items :
                  LET item_id == solver_items[n].k
                  IN  IF item_id \in solver_input_item_ids \cup solver_output_item_ids
                      THEN /\ DisposalVarsOf(item_id) = { }
                           /\ ~DictHas(solver_byproducts, item_id)
                      ELSE /\ Cardinality(DisposalVarsOf(item_id)) = 1
                           /\ DictHas(solver_byproducts, item_id)
                           /\ DisposalVarsOf(item_id) = { DictGet(solver_byproducts, item_id) }
                           /\ TermsAt(item_id, DictGet(solver_byproducts, item_id))
                                = << [var |-> DictGet(solver_byproducts, item_id),
                                      amount |-> (-1) * Scale] >>
                           /\ NodesOf(DictGet(solver_byproducts, item_id)) = { n }
           /\ Cardinality(DisposalVars) = Len(solver_byproducts)
           /\ \A v \in DisposalVars :
                  /\ \A c \in DOMAIN solver_costs : solver_costs[c].var # v
                  /\ \A c \in DOMAIN solver.objective : solver.objective[c].var # v
                  /\ \A i \in SupplyVars : i < v

\* disposal is on, with a declared input, a declared output and nodes that are
\* neither: the first two have no disposal variable, the others have one each
C24_Witness ==
    /\ AfterDisposal
    /\ config.allow_byproducts
    /\ solver_inputs # << >>
    /\ config.outputs # << >>
    /\ Len(solver_byproducts) >= 2
    /\ Len(solver_byproducts) < Len(solver_items)

(***************************************************************************)
(* The chart of the solved variants                                        *)
(***************************************************************************)
\* the ids of the variants with a value above the epsilon
ChartedVariants ==
    { id \in DictKeys(solver_recipes) : solution_value(DictGet(solver_recipes, id)) > 0 }

\* the positions of the nodes of the chart: (subgraph, line)
ChartNodes ==
    { pos \in (DOMAIN chart.subgraphs) \X (1..Cardinality(DictKeys(solver_recipes))) :
        pos[2] \in DOMAIN chart.subgraphs[pos[1]].nodes }

ChartNode(pos) == chart.subgraphs[pos[1]].nodes[pos[2]]

\* the node at pos shows the variant id: under the variant's recipe, with its
\* quality, machine and module counts, and the building count rounded up
ShowsVariant(pos, id) ==
    LET recipe_info == parse_recipe_id(id)
        node == ChartNode(pos)
    IN  /\ chart.subgraphs[pos[1]].recipe_name = recipe_info.recipe_key
        /\ node.recipe_quality = recipe_info.recipe_quality
        /\ node.machine = recipe_info.machine
        /\ node.mods = format_modules(IntToken(recipe_info.num_qual_modules),
                                      IntToken(recipe_info.num_prod_modules))
        /\ node.count = math_ceil(solution_value(DictGet(solver_recipes, id)))

OneNodePerVariant ==
    /\ Cardinality(ChartNodes) = Cardinality(ChartedVariants)
    /\ \A id \in ChartedVariants :
           Cardinality({ pos \in ChartNodes : ShowsVariant(pos, id) }) = 1

\* C25: write_flow_chart completes without error for every set of solved
\* variants, the chart has exactly one node for every variant with a value above
\* the epsilon, under its recipe and labelled with the building count rounded up,
\* and the nodes of two variants that differ in quality, machine or module
\* counts have different ids.
C25_FlowChart ==
    chart.pc # "idle" =>
        /\ chart.pc = "written"
        /\ OneNodePerVariant
        /\ \A pos, other \in ChartNodes :
               pos # other => ChartNode(pos).graph_id # ChartNode(other).graph_id

\* what does hold: the call fails on the key 'recipe_name' exactly when the
\* parse_recipe_id it uses is the one of solver/linear_solver.py and some variant
\* is above the epsilon; when it completes, the chart has one line per such
\* variant, with the rounded-up count, and the lines with the same recipe,
\* machine and quality share one node id
C25_OneLinePerVariant ==
    /\ chart.pc = "raised" =>
           chart.err = "KeyError" /\ chart.module = "solver" /\ ChartedVariants # { }
    /\ chart.pc = "written" =>
           /\ chart.module = "solver" => ChartedVariants = { }
           /\ OneNodePerVariant
           /\ \A pos, other \in ChartNodes :
                  (ChartNode(pos).graph_id = ChartNode(other).graph_id)
                    = (/\ pos[1] = other[1]
                       /\ ChartNode(pos).machine = ChartNode(other).machine
                       /\ ChartNode(pos).recipe_quality = ChartNode(other).recipe_quality)

\* a chart was written that holds two lines with one node id
C25_SharedNodeId ==
    /\ chart.pc = "written"
    /\ \E pos, other \in ChartNodes :
           pos # other /\ ChartNode(pos).graph_id = ChartNode(other).graph_id

(***************************************************************************)
(* The signs of the contributions                                          *)
(***************************************************************************)
\* the variant id of recipe_data: its quality percent is a probability, its
\* expected result amounts are not negative, and at every node it has at most
\* one negative term per listed ingredient and one positive term per listed result
SignsOfVariant(recipe_data, id) ==
    LET recipe_info == parse_recipe_id(id)
        var == DictGet(solver_recipes, id)
        p == VariantParams(config, recipe_data, DictGet(crafting_machines, recipe_info.machine),
                           TupleOf(recipe_info))
    IN  /\ 0 <= p.quality_percent /\ p.quality_percent <= Scale
        /\ \A r \in DOMAIN recipe_data.results :
               calculate_expected_amount(recipe_data.results[r], p.prod_bonus) >= 0
        /\ \A n \in DOMAIN solver_items :
               LET item_key == parse_item_id(solver_items[n].k).item_key
                   terms == TermsAt(solver_items[n].k, var)
               IN  /\ Cardinality({ j \in DOMAIN terms : terms[j].amount < 0 })
                        <= Occurrences(recipe_data.ingredients, item_key)
                   /\ Cardinality({ j \in DOMAIN terms : terms[j].amount > 0 })
                        <= Occurrences(recipe_data.results, item_key)

\* the quality modules of the variant do not add up to more than 100 percent
WithinOneHundredPercent(id) ==
    parse_recipe_id(id).num_qual_modules * quality_module_probability(config) <= Scale

\* C26: for every registered variant, whatever the module slot count of the
\* machine and the optional fields of the results, every ingredient contribution
\* is <= 0 and every result contribution is >= 0: the quality percent passed to
\* calculate_quality_probability_factor lies in [0, 1] and the expected result
\* amount is not negative.
C26_ContributionSigns ==
    (PassedRecipe /\ machine_choice.returned /\ machine_choice.machine # << >>)
        => \A id \in VariantsOf(LastRecipe.key) : SignsOfVariant(LastRecipe, id)

\* what does hold: the signs are right for every variant whose quality modules
\* add up to at most 100 percent
C26_SignsBelowOneHundredPercent ==
    (PassedRecipe /\ machine_choice.returned /\ machine_choice.machine # << >>)
        => \A id \in VariantsOf(LastRecipe.key) :
               WithinOneHundredPercent(id) => SignsOfVariant(LastRecipe, id)

\* a variant was registered with a quality percent above 1 and a negative
\* contribution to the node of its result at its own tier
C26_NegativeResult ==
    /\ PassedRecipe
    /\ max_quality_unlocked = 1
    /\ \E id \in VariantsOf(LastRecipe.key) :
           /\ ~WithinOneHundredPercent(id)
           /\ \E j \in DOMAIN TermsAt(get_item_id(<< "plate" >>, 0), DictGet(solver_recipes, id)) :
                  TermsAt(get_item_id(<< "plate" >>, 0), DictGet(solver_recipes, id))[j].amount < 0

(***************************************************************************)
(* Inputs declared more than once                                          *)
(***************************************************************************)
\* the solved external supply entering the node item_id: the terms of the
\* node that belong to input variables, times their solved values
SupplyAt(item_id) ==
    LET terms == DictGet(solver_items, item_id)
    IN  SeqSum([ j \in DOMAIN terms |->
                   IF terms[j].var \in SupplyVars
                   THEN (terms[j].amount * solution[terms[j].var]) \div Scale ELSE 0 ])

\* the report lists the supply of the node: its total when above the epsilon
ListsSupply(item_id) ==
    ListedInput(item_id) = IF SupplyAt(item_id) > 0 THEN << SupplyAt(item_id) >> ELSE << >>

\* the inputs of the configuration that declare the node item_id
DeclarationsOf(item_id) == { i \in DOMAIN config.inputs : InputItemId(config.inputs[i]) = item_id }

\* C27: in a solved report, the amount listed under input_items or
\* input_resources for a declared (item, quality) is the total external supply
\* entering the node's constraint, also for an (item, quality) that the
\* configuration declares as input more than once.
C27_ListedInputIsTotalSupply ==
    (pc = "done" /\ results.solved) =>
        \A i \in DOMAIN config.inputs : ListsSupply(InputItemId(config.inputs[i]))

\* what does hold: the listed amount is the total supply of every node declared
\* once, and the value of the variable declared last of every other node
C27_ListsLastDeclaration ==
    (pc = "done" /\ results.solved) =>
        \A i \in DOMAIN config.inputs :
            LET item_id == InputItemId(config.inputs[i])
                last == DictGet(solver_inputs, item_id)
            IN  /\ Cardinality(DeclarationsOf(item_id)) = 1 => ListsSupply(item_id)
                /\ ListedInput(item_id)
                     = IF solution[last] > 0 THEN << solution[last] >> ELSE << >>

\* a solved report that lists no ore although ore is supplied, by the first of
\* two declarations
C27_SupplyNotListed ==
    /\ pc = "done"
    /\ results.solved
    /\ \E i \in DOMAIN config.inputs :
           /\ Cardinality(DeclarationsOf(InputItemId(config.inputs[i]))) = 2
           /\ SupplyAt(InputItemId(config.inputs[i])) > 0
           /\ ListedInput(InputItemId(config.inputs[i])) = << >>

=============================================================================
